-------------------------- MODULE MCConfigService --------------------------
(* Instances of ConfigService for TLC. *)
EXTENDS ConfigService

CONSTANTS h1, h2, a, b, alien

Both == {h1, h2}
First == {h1}
Second == {h2}
ChunkSet == {a, b}
AllAllowed == {a, b}
DefaultTopo == <<a>>

\* A profile that allows only b, and one that does not fit the chip.
TwoProfiles == {{b}, {a, alien}}
=============================================================================
