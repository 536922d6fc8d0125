CONSTANT Projects <- MCProjects
SPECIFICATION Spec
INVARIANTS TypeOK LayoutsAgree EntryPoints JumpsLand RoundTrip
CHECK_DEADLOCK FALSE
