------------------------------ MODULE MCRelay ------------------------------
(* Instances of Relay for TLC.                                             *)
EXTENDS Relay, TLC

CONSTANTS a, b,  \* devices
          x, y,  \* names of the sockets of a that are not told apart
          p, q   \* names of the messages of b that are not told apart

ab == <<a, b>>  \* the JWT of a, paired with b
ba == <<b, a>>

(* Two paired devices: a has two sockets, b one and sends to a.            *)
PairedClaims == {ab, ba}
TwoAndOne == {<<ab, x>>, <<ab, y>>, <<ba, 1>>}
OneToA == {<<ba, p>>}
TwoToA == {<<ba, p>>, <<ba, q>>}

Names == Permutations({x, y}) \cup Permutations({p, q})
=============================================================================
