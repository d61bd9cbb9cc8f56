---------------------------- MODULE MC_TocHooks ----------------------------
(* Model-checking instance of TocHooks: three heading texts, two of which  *)
(* ("Intro" and "intro!") derive the same slug.                            *)
EXTENDS TocHooks, TLC

CONSTANTS t1, t2, t3

MC_Texts == {t1, t2, t3}
MC_SlugOf == (t1 :> "intro") @@ (t2 :> "intro") @@ (t3 :> "usage")
MC_TextsOrNone == MC_Texts \cup {NoText}
=============================================================================
