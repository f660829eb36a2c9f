-------------------------- MODULE MCConsentManager --------------------------
(* Instances of ConsentManager for TLC: a group without a service, a group   *)
(* with one, and an element of each kind.                                    *)
EXTENDS ConsentManager

CONSTANTS video, youtube

MCGroupOf == [s \in {video} |-> Media]
MCProviderOf == [s \in {video} |-> youtube]
MCResources ==
    {[kind |-> "payload", service |-> video, group |-> None, provider |-> None],
     [kind |-> "server", service |-> video, group |-> None, provider |-> None],
     [kind |-> "embed", service |-> video, group |-> Media, provider |-> youtube],
     [kind |-> "client", service |-> None, group |-> Media, provider |-> None]}
=============================================================================
