----------------------------- MODULE MCToolOrder -----------------------------
(* Small instances of ToolOrder: three tools, every strict dependency        *)
(* relation over them, and a few flexible and OS-scoped ones.                *)
EXTENDS ToolOrder

CONSTANTS a, b, c

MCTools == {a, b, c}
MCOSes == {"linux", "windows"}

Empty == [t \in MCTools |-> {}]
NoFlex == [t \in MCTools |-> <<>>]

\* kubectl's shape (one of several), minikube's (one of two), and a ring.
FlexChoices ==
    {NoFlex,
     [NoFlex EXCEPT ![a] = <<b, c>>],
     [NoFlex EXCEPT ![a] = <<c, b>>, ![b] = <<c>>],
     [NoFlex EXCEPT ![a] = <<b>>, ![b] = <<c>>, ![c] = <<a>>]}

\* A prerequisite that only Windows has.
ScopedChoices == {Empty, [Empty EXCEPT ![c] = {<<"windows", a>>}]}

MCRegistries ==
    [os : MCOSes, depends_on : [MCTools -> SUBSET MCTools],
     depends_on_by_os : ScopedChoices, depends_on_one_of : FlexChoices]

DistinctLists == {<<a>>, <<b, c>>, <<a, b, c>>, <<c, a, b>>}

\* Two spellings of one tool leave its lower-cased name in the list twice.
RepeatingLists == DistinctLists \cup {<<a, a>>, <<a, b, a>>}
==============================================================================
