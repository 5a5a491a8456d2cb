SPECIFICATION Spec
CONSTANTS
    r1 = r1
    r2 = r2
    r3 = r3
    database = database
    cleanup = cleanup
    Requests <- MCRequests
    Services <- MCServices
    Hooked <- MCHooked
    NoService = NoService
PROPERTIES
    AdmissionStaysClosed
CHECK_DEADLOCK FALSE
