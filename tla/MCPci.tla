------------------------------- MODULE MCPci -------------------------------
(***************************************************************************)
(* Machines with three buses of two devices of two functions.              *)
(***************************************************************************)
EXTENDS Pci

\* A function that answers, and a slot of a bus: what its functions answer.
Fn(kind, multi, secondary, alias) ==
    [kind |-> kind, multi |-> multi, secondary |-> secondary, alias |-> alias]
None == Fn("none", FALSE, 0, FALSE)
Device(kind) == Fn(kind, FALSE, 0, FALSE)
Bridge(b) == Fn("bridge", FALSE, b, FALSE)

Single(f) == <<f, None>>
Aliasing(f) == <<f, [f EXCEPT !.alias = TRUE]>>
Multi(f, g) == <<[f EXCEPT !.multi = TRUE], g>>
Empty == <<None, None>>

Other == Device("other")
Ehci == Device("ehci")
Slots0 == {Empty, Single(Other), Single(Ehci), Aliasing(Ehci), Single(Bridge(0)),
           Single(Bridge(1)), Single(Bridge(2)), Multi(Other, Ehci),
           Multi(Bridge(1), Bridge(2)), Multi(Bridge(2), Other), Multi(Other, None)}
Slots1 == {Empty, Single(Other), Aliasing(Ehci), Single(Bridge(2)), Multi(Ehci, Other),
           Multi(Bridge(0), Bridge(2))}
Slots2 == {Empty, Single(Ehci), Aliasing(Other)}

MCMachines ==
    {m \in {[a \in Addresses |-> s[a[1]][a[2]][a[3] + 1]] :
              s \in {[b \in 0 .. 2 |-> CASE b = 0 -> (0 :> w @@ 1 :> x)
                                         [] b = 1 -> (0 :> y @@ 1 :> z)
                                         [] b = 2 -> (0 :> v @@ 1 :> Empty)] :
                       w \in Slots0, x \in Slots0, y \in Slots1, z \in Slots1,
                       v \in Slots2}} : WellFormed(m)}

\* BARs of a quarter of a page, of half, one and two pages; a 64-bit one; an
\* empty one and one for ports.
MCBars ==
    {[base |-> 80, size |-> 16, flags |-> 0], [base |-> 96, size |-> 32, flags |-> 4],
     [base |-> 128, size |-> 64, flags |-> 0], [base |-> 128, size |-> 128, flags |-> 12],
     [base |-> 0, size |-> 16, flags |-> 0], [base |-> 16, size |-> 16, flags |-> 1]}
=============================================================================
