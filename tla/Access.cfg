SPECIFICATION Spec
CONSTANTS
    Handlers = {h1, h2}
    Members = {m1, m2}
    Admin = admin
    Subjects = {s1, s2}
    Apps = {"notes", "control"}
    Restricted = {"control"}
    Routes = {"a", "a/b", "c"}
    Overlaps <- Nested
    Mixes <- Requests
    MaxChanges = 2
    MaxContexts = 1
INVARIANTS
    
    NamesAreUnique
    

    
SYMMETRY Alike
CHECK_DEADLOCK FALSE
