---------------------------- MODULE MC_EventLoop ----------------------------
(* Small instances of EventLoop for TLC. *)
EXTENDS EventLoop, TLC

CONSTANTS s1, s2, k1, k2, t1, t2, p1

\* Two networks that differ in name only; the first one is in range.
MC_Ssids == {s1, s2}
MC_Psks == {k1}
MC_Good == {[ssid |-> s1, psk |-> k1]}

\* Networks that differ in name and key, for the ON_CONNECTION check.
MC_Psks2 == {k1, k2}
MC_Good2 == {[ssid |-> s1, psk |-> k1], [ssid |-> s2, psk |-> k2]}

MC_Tokens == {t1, t2}
MC_Plants == {p1}

Symm == Permutations(MC_Tokens)
=============================================================================
