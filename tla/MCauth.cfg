\* Up to four calls one after the other, or up to three that overlap; one fault.
SPECIFICATION Spec
CONSTANTS
    u1 = u1
    u2 = u2
    Users <- MCUsers
    Accounts <- MCAccounts
    NoUser = NoUser
    Missing = Missing
    NoSession = NoSession
    Tasks = {t1, t2}
    MaxCalls = 4
    MaxFaults = 1
    InitAuth <- MCInit
INVARIANTS AuthInv SecretsBehindAccounts LoggedOutForgotten
CHECK_DEADLOCK FALSE
