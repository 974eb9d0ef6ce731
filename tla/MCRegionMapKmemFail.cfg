CONSTANTS
    MaxKey = 5
    KmemMayFail = TRUE
SPECIFICATION Spec
PROPERTY FreeSuccessFreesKey
