----------------------------- MODULE MCStartup -----------------------------
(* Startup for TLC: configurations that are right and ones that are not.   *)
EXTENDS Startup, TLC

Node(name, vmid, cidr) == [name |-> name, vmid |-> vmid, cidr |-> cidr]

\* Each name is part of the next, and the last is the first twice over.
Overlapping == <<Node(<<"a", "b", "c">>, 9201, "x"), Node(<<"a", "b", "c", "a">>, 9202, "y"),
                 Node(<<"a", "b">>, 9203, "z")>>
Parked == <<Node(<<"c">>, 9204, "x"), Node(<<"b", "b">>, 9205, "y"),
            Node(<<"d">>, 9211, "z")>>
Twins == <<Node(<<"c">>, 9204, "x"), Node(<<"d">>, 9204, "y"), Node(<<"e">>, 9205, "z")>>
TooFew == <<Node(<<"c">>, 9204, "x"), Node(<<"d">>, 9205, "y")>>

Base == [complete |-> TRUE, nodes |-> Overlapping, template |-> NoTemplate,
         acme |-> NoACME, unset |-> {}, answerURL |-> "here"]

ACME == [given |-> TRUE, contact |-> TRUE, provider |-> TRUE,
         credentials |-> "named", directory |-> "", challenge |-> ""]

NotFilledIn == [Base EXCEPT !.unset = {"id", "secret"}]

SomeConfigs ==
    {[Base EXCEPT !.template = t, !.answerURL = u, !.nodes = ns] :
        t \in {NoTemplate, [vmid |-> 9210, cidr |-> "t"]},
        u \in {"here", "away", "self"}, ns \in {Overlapping, Parked}}
    \union {[Base EXCEPT !.nodes = ns] : ns \in {Twins, TooFew}}
    \union {[Base EXCEPT !.complete = FALSE],
            [Base EXCEPT !.template = [vmid |-> 9201, cidr |-> "t"]],
            [Base EXCEPT !.acme = ACME],
            [Base EXCEPT !.acme = [ACME EXCEPT !.challenge = "standalone"]]}

\* "self" resolves to the loopback as well, and first.
Hosts == "here" :> <<"far", "lan">> @@ "away" :> <<"far">> @@ "self" :> <<"lo", "lan">>
LocalAddrs == {"lan", "lo"}
LoopbackAddrs == {"lo"}
Tmpl == <<"t">>
=============================================================================
