----------------------------- MODULE RandomGen -----------------------------
(***************************************************************************)
(* src/crypto/random.go: the character lists built by init(), Number,      *)
(* getVisualChar, String and Password.  One call of String or Password,    *)
(* with the length in Lengths, is a sequential state machine; every draw   *)
(* from crypto/rand (rand.Int in Number, rand.Read) is a nondeterministic  *)
(* choice, and may fail when RandFails.                                    *)
(*                                                                         *)
(* Bytes are their values.  Each character map is given by a small set of  *)
(* its keys (a representative of its class); rand.Read's bytes are a      *)
(* capital or one of OtherBytes, since every byte that is not a key of     *)
(* CapitalCharMap takes the same path through the code.  The order in      *)
(* which init() ranges over a map is random, but only which bytes a list   *)
(* holds is read afterwards (at a random index), so any order will do.     *)
(***************************************************************************)
EXTENDS Naturals, Sequences, SequencesExt

CONSTANTS
    NumberChars,     \* keys of NumberCharMap (48..57)
    CapitalChars,    \* keys of CapitalCharMap (65..90)
    LowercaseChars,  \* keys of LowercaseCharMap (97..122)
    SpecialChars,    \* keys of SpecialCharMap (35..38)
    OtherBytes,      \* bytes of no map that rand.Read may return
    Lengths,         \* the lengths String and Password are called with
    RandFails        \* whether crypto/rand may return an error

VisualCharAll == 0
VisualCharNumber == 1
VisualCharCapital == 2
VisualCharLowercase == 3
VisualCharSpecial == 4

\* make([]uint64, n): n zero entries.
Zeros(n) == [i \in 1..n |-> 0]

\* init(): every list is made with a length and then appended to, so it
\* keeps that many zeros in front of the characters.
NumberCharList == Zeros(10) \o SetToSeq(NumberChars)
CapitalCharList == Zeros(26) \o SetToSeq(CapitalChars)
LowercaseCharList == Zeros(26) \o SetToSeq(LowercaseChars)
SpecialCharList == Zeros(128) \o SetToSeq(SpecialChars)
VisualCharList ==
    Zeros(256) \o SetToSeq(SpecialChars) \o SetToSeq(NumberChars)
               \o SetToSeq(CapitalChars) \o SetToSeq(LowercaseChars)

\* getVisualChar(charType): list[index] for index = Number(len(list)), any
\* index in 0..len-1 (rand.Int); for each charType, the bytes it can return.
VisualChars ==
    LET list(t) == CASE t = VisualCharNumber    -> NumberCharList
                     [] t = VisualCharCapital   -> CapitalCharList
                     [] t = VisualCharLowercase -> LowercaseCharList
                     [] t = VisualCharSpecial   -> SpecialCharList
                     [] OTHER                   -> VisualCharList
    IN  [t \in 0..4 |-> {list(t)[i] : i \in 1..Len(list(t))}]

RandBytes == CapitalChars \cup OtherBytes

VARIABLES
    call,    \* "String" or "Password"
    length,  \* its argument
    pc,      \* "start", "pos", "read", "set", "scan", "done"
    pos,     \* the character positions drawn so far (0-based), in order
             \* number, capital, lowercase, special
    buf,     \* byteList / pwdList
    i,       \* the index of the loop at "set" (charType) and "scan" (byte)
    result   \* "none", "ok" or "err"

rvars == <<call, length, pc, pos, buf, i, result>>

Init ==
    /\ call \in {"String", "Password"}
    /\ length \in Lengths
    /\ pc = "start" /\ pos = <<>> /\ buf = <<>> /\ i = 0 /\ result = "none"

\* A call of crypto/rand fails: the error is returned.
RandError ==
    /\ RandFails
    /\ pc' = "done" /\ result' = "err"
    /\ UNCHANGED <<call, length, pos, buf, i>>

\* String: byteList := make([]byte, length), then rand.Read.
StringStart ==
    /\ call = "String" /\ pc = "start"
    /\ pc' = "read"
    /\ UNCHANGED <<call, length, pos, buf, i, result>>

\* Password: a length below 6 is refused.
PasswordStart ==
    /\ call = "Password" /\ pc = "start"
    /\ IF length < 6 THEN pc' = "done" /\ result' = "err"
                     ELSE pc' = "pos" /\ result' = result
    /\ UNCHANGED <<call, length, pos, buf, i>>

\* numberCharPosition := Number(length), then the loops that draw the
\* capital, lowercase and special positions again until each differs from
\* those drawn before (a draw that is taken already changes nothing).
PickPosition ==
    /\ pc = "pos"
    /\ \/ \E p \in (0..length - 1) \ Range(pos) :
             /\ pos' = Append(pos, p)
             /\ pc' = IF Len(pos) = 3 THEN "read" ELSE "pos"
             /\ UNCHANGED <<call, length, buf, i, result>>
       \/ RandError

\* rand.Read(pwdList / byteList).
ReadRandom ==
    /\ pc = "read"
    /\ \/ \E b \in [1..length -> RandBytes] :
             /\ buf' = b
             /\ IF call = "Password" THEN pc' = "set" /\ i' = VisualCharNumber
                                     ELSE pc' = "scan" /\ i' = 1
             /\ UNCHANGED <<call, length, pos, result>>
       \/ RandError

\* pwdList[position of class i] = getVisualChar(i), for the number,
\* capital, lowercase and special classes in turn; an error is returned.
\* The positions are not read again afterwards.
SetClassChar ==
    /\ pc = "set"
    /\ \/ \E x \in VisualChars[i] :
             /\ buf' = [buf EXCEPT ![pos[i] + 1] = x]
             /\ IF i = VisualCharSpecial
                THEN pc' = "scan" /\ i' = 1 /\ pos' = <<>>
                ELSE pc' = "set" /\ i' = i + 1 /\ pos' = pos
             /\ UNCHANGED <<call, length, result>>
       \/ RandError

\* for i, v := range list: a byte that is not a key of CapitalCharMap is
\* replaced by getVisualChar(0), retried until it succeeds.
ScanChar ==
    /\ pc = "scan" /\ i <= length
    /\ IF buf[i] \in CapitalChars
       THEN buf' = buf
       ELSE \E x \in VisualChars[VisualCharAll] : buf' = [buf EXCEPT ![i] = x]
    /\ i' = i + 1
    /\ UNCHANGED <<call, length, pc, pos, result>>

\* The loop is over: string(list), nil.
ScanEnd ==
    /\ pc = "scan" /\ i > length
    /\ pc' = "done" /\ result' = "ok"
    /\ UNCHANGED <<call, length, pos, buf, i>>

Next ==
    \/ StringStart \/ PasswordStart \/ PickPosition \/ ReadRandom
    \/ SetClassChar \/ ScanChar \/ ScanEnd

=============================================================================
