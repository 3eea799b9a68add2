SPECIFICATION Spec
CONSTANTS
    Nodes <- MCNodes
    Node <- MCNode
    Order <- MCOrder
    Dynamic <- MCDynamic
    Venvs = {v1, v2}
    Cmds = {c1, c2}
    Offers <- MCOffers
    CorpFiles <- MCCorpFiles
    Domains <- MCDomains
    None = None
    MaxUpdates = 2
INVARIANTS
    CorpBlockHolds
    CurrentPolicy
    
    
CHECK_DEADLOCK FALSE
SYMMETRY Symmetry
