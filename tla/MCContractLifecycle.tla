-------------------------- MODULE MCContractLifecycle --------------------------
(***************************************************************************)
(* Instances of ContractLifecycle for TLC: a template with two clauses; a1 *)
(* and a2 are versions of the first, b1 is the version of the second.      *)
(***************************************************************************)
EXTENDS ContractLifecycle, TLC

CONSTANTS a, b, tpl, a1, a2, b1, t1, q1, q2

MCOwner == (a1 :> a) @@ (a2 :> a) @@ (b1 :> b) @@ (t1 :> tpl)
MCSlots == t1 :> {a, b}

Rule(type, target, severity) ==
    [type |-> type, target |-> target, severity |-> severity]

\* The first version of a wants an answer, the second another one and that b
\* is absent; b asks for a, which only its absence can violate.
MCRules == (a1 :> {Rule("requires_answer", q1, "hard")})
        @@ (a2 :> {Rule("requires_answer", q2, "soft"),
                   Rule("incompatible_with", b, "soft")})
        @@ (b1 :> {Rule("requires", a, "hard"),
                   Rule("requires_answer", q2, "soft")})

\* The template and the first version of a have been published, b is about
\* to be, and nobody has written the second version of a yet.
InitPublished ==
    /\ status = [v \in VersionIds |->
                    CASE v = a2 -> "none" [] v = b1 -> "approved"
                      [] v \in {a1, t1} -> "published"]
    /\ current = (a :> a1) @@ (b :> NoVersion) @@ (tpl :> t1)
    /\ contract = NoContract
    /\ req = [r \in Requests |-> Idle]
    /\ saved = {}
    /\ validated = FALSE
    /\ raced = FALSE

SpecPublished == InitPublished /\ [][Next]_vars

RequestSymmetry == Permutations(Requests)
=============================================================================
