------------------------------- MODULE MCBoot -------------------------------
(***************************************************************************)
(* Machines for Boot.  Offsets: device d is at bits 15 to 19, function f   *)
(* at bits 12 to 14.                                                       *)
(***************************************************************************)
EXTENDS Boot, TLC

Arenas == <<32, 64, 128, 256, 512>>

D(id, q) == [id |-> id, queues |-> q]
Rng == D(4101, <<8>>)
Console == D(4099, <<64, 64>>)
Blk(n) == D(4097, <<n>>)

One == ({15} :> Rng)
Sources(offs) == [o \in offs |-> Rng]

AllMachines ==
  { \* The README's.
    One @@ ({16} :> Console) @@ ({15, 16} :> Blk(256)),
    \* Far apart, on another bus and at function 4.
    One @@ ({15, 16, 17, 18} :> Console)
        @@ ({14, 15, 18, 19, 20} :> Blk(256)),
    \* No entropy source.
    ({16} :> Console),
    \* Two block devices; the second takes the driver.
    One @@ ({16} :> Blk(256)) @@ ({17} :> Blk(256)),
    \* More rings than the storage holds.
    One @@ ({16} :> D(4099, <<1024, 1024>>)) @@ ({17} :> Blk(256)),
    \* Other queue lengths than the drivers take for granted.
    One @@ ({16} :> Blk(128)) @@ ({17} :> D(4099, <<64, 32>>)),
    \* Only devices at function 1, taken for one at function 0.
    One @@ ({12, 15} :> Blk(256)), ({12, 17} :> Rng),
    \* A network card, a 9P device, and a modern network card.
    One @@ ({16} :> D(4096, <<256>>)), One @@ ({16} :> D(4105, <<128>>)),
    One @@ ({16} :> D(4161, <<256, 256>>)),
    \* Driver number 10.
    One @@ ({16} :> D(4170, <<8>>)),
    \* More records than the smallest fitting arena has, and than all have.
    Sources({{15}, {16}, {17}, {18}}),
    Sources({{15}, {16}, {17}, {18}, {19}, {15, 16}, {15, 17}}) }
=============================================================================
