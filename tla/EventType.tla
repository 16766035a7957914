------------------------------ MODULE EventType ------------------------------
(***************************************************************************)
(* The grammar of event type names (event/type.go).  The state is one      *)
(* candidate name, grown character by character; the operators are what    *)
(* the package makes of it.                                                *)
(*                                                                         *)
(* A name is the sequence of its dot-separated segments and a segment the  *)
(* sequence of its characters.  The constant prefix is left out, and with  *)
(* it the check that every name begins with it.                            *)
(***************************************************************************)
EXTENDS Decimals

CONSTANTS
    SegmentsMin,  \* typeSegmentsMin, without the prefix
    MaxInt,       \* the greatest int, beyond which strconv.Atoi fails
    MaxLength     \* bound: characters in a segment

ASSUME TypeConstants == SegmentsMin \in Nat \ {0} /\ MaxInt \in Nat

VARIABLE name

Letters == {"v", "a"}
Signs == {"-", "+"}
SegmentsMax == SegmentsMin + 1

NameChars == Letters \union {"0", "1", "2"} \union Signs   \* bound: what candidates are made of

TypeInit == name = <<<<>>>>

\* A candidate gains a character, or a dot until it has a segment too many.
TypeNext ==
    \/ /\ Len(name) <= SegmentsMax /\ Len(name[Len(name)]) < MaxLength
       /\ \E c \in NameChars : name' = [name EXCEPT ![Len(name)] = Append(@, c)]
    \/ /\ Len(name) <= SegmentsMax
       /\ name' = Append(name, <<>>)

TypeSpec == TypeInit /\ [][TypeNext]_name

-----------------------------------------------------------------------------
(* strconv.Atoi: an optional sign and decimal digits, at most MaxInt; -1   *)
(* also stands for an error, which no caller tells from a negative number. *)
Unsigned(s) == IF s # <<>> /\ Head(s) \in Signs THEN Tail(s) ELSE s

Atoi(s) ==
    LET u == Unsigned(s) IN
    IF u = <<>> \/ (\E i \in DOMAIN u : ~IsDigit(u[i])) \/ Decimal(u) > MaxInt THEN -1
    ELSE IF Head(s) = "-" THEN -Decimal(u) ELSE Decimal(u)

ValidSegment(s) ==
    /\ s # <<>>
    /\ s[1] \in Letters
    /\ \A i \in DOMAIN s : s[i] \in Letters \union {"-"} \/ IsDigit(s[i])

\* Version 1 is written by leaving the segment out.
ValidVersionSegment(s) ==
    /\ Len(s) >= 2 /\ s[1] = "v"
    /\ Atoi(Tail(s)) > 1

\* Whether ParseType accepts t.
ParseType(t) ==
    /\ Len(t) \in {SegmentsMin, SegmentsMax}
    /\ \A i \in 1..SegmentsMin : ValidSegment(t[i])
    /\ Len(t) = SegmentsMax => ValidVersionSegment(t[SegmentsMax])

MajorVersion(t) ==
    LET n == Atoi(Tail(t[SegmentsMax])) IN
    IF Len(t) # SegmentsMax \/ n = -1 THEN 1 ELSE n

BaseOfLast(t) == SubSeq(t, 1, Len(t) - 1)

Base(t) == IF Len(t) # SegmentsMax THEN t ELSE SubSeq(t, 1, SegmentsMax - 1)

-----------------------------------------------------------------------------
(* Properties                                                              *)

\* The accepted name of a contract at a version, as version segments are
\* meant to be written: no segment for version 1, v<major> beyond.
Canonical(base, major) ==
    IF major = 1 THEN base ELSE Append(base, <<"v">> \o Numeral(major))

\* A contract at a version has one accepted name: validVersionSegment
\* rejects a spelling because "Permitting both spellings would give one
\* contract two type names, and a consumer subscribed to one would silently
\* miss the other."  Not so: v02 and v+2 are read as v2.
OneSpelling == ParseType(name) => name = Canonical(Base(name), MajorVersion(name))

\* The canonical name of whatever is accepted is accepted too, and Base and
\* MajorVersion read the same contract and version out of it: two names of
\* one contract are recognised as such.
CanonicalIsAccepted ==
    ParseType(name) =>
        LET c == Canonical(Base(name), MajorVersion(name)) IN
        /\ ParseType(c)
        /\ Base(c) = Base(name)
        /\ MajorVersion(c) = MajorVersion(name)

\* Without its version segment an accepted name is an accepted name of
\* version 1, and a name with one has a later version, never the 1 that
\* MajorVersion falls back to.
BaseIsVersionOne ==
    ParseType(name) =>
        /\ ParseType(Base(name)) /\ MajorVersion(Base(name)) = 1
        /\ Base(name) # name => MajorVersion(name) > 1

\* ParseType, Base and MajorVersion agree on one name of each contract, and the
\* base of an accepted type is an accepted type of version 1.
NamesAgree == CanonicalIsAccepted /\ BaseIsVersionOne

=============================================================================
