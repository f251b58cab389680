SPECIFICATION Spec
CONSTANTS
    Windows = {w1, w2, w3, w4}
    None = None
    Applied = {TRUE}
    StaleMenus = FALSE
SYMMETRY Symmetry
CONSTRAINT FewAside
PROPERTIES
    FocusFollowsMove
    TabsRemembered
    FocusAgreementKept
