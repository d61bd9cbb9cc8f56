----------------------------- MODULE MC_Signup -----------------------------
(* Model-checking instance of Signup: two server threads, two usernames,   *)
(* two well-formed addresses and one the address check refuses.            *)
EXTENDS Signup, TLC

CONSTANTS r1, r2, alice, bob, mail1, mail2, notAnAddress

MC_Threads == {r1, r2}
MC_Usernames == {alice, bob}
MC_Addresses == {mail1, mail2, notAnAddress}
MC_ValidAddresses == {mail1, mail2}
\* Threads and usernames are interchangeable; addresses are not (one is invalid).
MC_Symmetry == Permutations(MC_Threads) \cup Permutations(MC_Usernames)
=============================================================================
