-------------------------- MODULE MCExampleConnect --------------------------
(* Every combination of interfaces that the configuration allows: Thread   *)
(* selects IPv6, and IPv6 needs an interface.                              *)
EXTENDS ExampleConnect

MCBuilds ==
    {b \in [interfaces : SUBSET Names, ipv6 : BOOLEAN] :
        /\ "thread" \in b.interfaces => b.ipv6
        /\ b.ipv6 => b.interfaces # {}}
=============================================================================
