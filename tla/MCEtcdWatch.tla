---------------------------- MODULE MCEtcdWatch ----------------------------
EXTENDS EtcdWatch, TLC

CONSTANTS w1, w2, v1, l1

\* Two keys: "a" and "ab", as byte sequences.
MCKeys == {<<1>>, <<1, 2>>}

MCWatchers == {w1, w2}

\* Two programs: one calls Watch("a") and WatchPrefix("a"), the other
\* WatchRange("ab", "b") and WatchPrefix("a"); so a watch of one key, of
\* both keys and of the other key all run, two at a time.
MCWatchSetups ==
    { (w1 :> [kind |-> "key", key |-> <<1>>, end |-> <<>>]) @@
      (w2 :> [kind |-> "prefix", key |-> <<1>>, end |-> <<>>]),
      (w1 :> [kind |-> "range", key |-> <<1, 2>>, end |-> <<2>>]) @@
      (w2 :> [kind |-> "prefix", key |-> <<1>>, end |-> <<>>]) }
=============================================================================
