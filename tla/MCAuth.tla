------------------------------- MODULE MCAuth -------------------------------
(* One configured provider in turn; two users at the providers that can      *)
(* answer with the wrong account; logged out, or with one account logged in. *)
EXTENDS AuthManager

CONSTANTS u1, u2

MCUsers == {u1, u2}

MCAccounts ==
    {<<"microsoft", u1>>, <<"microsoft", u2>>, <<"http", u1>>, <<"azuriom", u1>>, <<"offline", u1>>}

MicrosoftAccount == {Session("microsoft", u1, TRUE, 1)}

MCInit ==
    {[callers |-> 1, calls |-> 1, registry |-> {"microsoft"}, sessions |-> MicrosoftAccount],
     [callers |-> 2, calls |-> 2, registry |-> {"microsoft"}, sessions |-> MicrosoftAccount],
     [callers |-> 1, calls |-> 0, registry |-> {"http"}, sessions |-> {}],
     [callers |-> 2, calls |-> 1, registry |-> {"http"}, sessions |-> {}],
     [callers |-> 1, calls |-> 0, registry |-> {"azuriom"}, sessions |-> {}]}
=============================================================================
