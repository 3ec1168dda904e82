------------------------------- MODULE MCDnsMux -------------------------------
(* Instance of DnsMux: profile p has a node and a service, profile q has a node *)
(* with the same label and a service.  The nodes have one canonical address,    *)
(* the services another.                                                        *)
EXTENDS DnsMux

N(l, z) == [label |-> l, zone |-> z]

MCTargets == 1 .. 4
MCProfile == <<"p", "p", "q", "q">>
MCFQDN == <<N("db", "zp"), NoName, N("db", "zq"), NoName>>
MCMagicName == <<N("db", "zp"), N("svc", "zp"), N("db", "zq"), N("svc", "zq")>>
MCCanonical == <<"c", "d", "c", "d">>

\* p is logged out, or both run.
MCInventories == {{3, 4}, {1, 2, 3, 4}}

\* As strings, zq ends with zp.
MCEndsWith == {<<"zq", "zp">>}

MCQuestions ==
  {[type |-> "A", name |-> n] : n \in {N("db", NoZone), N("svc", "zp"), N("svc", "zq")}}
  \cup {[type |-> "PTR", addr |-> a] : a \in {Lease(3), Address("d")}}
  \cup {[type |-> x, name |-> NoName] : x \in {"AAAA", "other", "bad"}}
===============================================================================
