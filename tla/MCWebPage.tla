------------------------------ MODULE MCWebPage ------------------------------
(* WebPage for TLC.  Databases and frames are alike: nothing chooses one by *)
(* its name, and the runs check invariants only.                            *)
EXTENDS WebPage

SiteCookies == {[id |-> "sid", http |-> TRUE, site |-> "Strict"],
                [id |-> "pref", http |-> FALSE, site |-> "none"]}

LegacyCookies == {[id |-> "old", http |-> FALSE, site |-> "none"]}

Symm == Permutations(Dbs) \cup Permutations(Frames)
=============================================================================
