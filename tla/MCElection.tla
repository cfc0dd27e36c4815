----------------------------- MODULE MCElection -----------------------------
(* Two Candidates and two names for Election.                              *)
EXTENDS Election, TLC

CONSTANTS c1, c2, n1, n2

MCCandidates == {c1, c2}
MCNames == {n1, n2}

====
