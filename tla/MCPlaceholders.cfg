CONSTANT
    Groups <- MCGroups
SPECIFICATION Spec
CHECK_DEADLOCK FALSE
INVARIANTS
    TypeOK
    SubstitutesTheMarkers
    ReadsTheSame
    ValuesArrive
    AcceptsWhatFits
    NamesStayWhole
