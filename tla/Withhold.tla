------------------------------ MODULE Withhold ------------------------------
(***************************************************************************)
(* Withhold of idempotency/withhold.go: the members that JSON pointers     *)
(* name are removed from a response, one after the other, before it is     *)
(* stored.  A pointer is grown character by character, so that what the    *)
(* code makes of each of its beginnings is checked too.                    *)
(*                                                                         *)
(* A decoded document is the function from the path of each of its values  *)
(* to the kind of the value; a path has a key for each object and a        *)
(* position for each array that it passes.                                 *)
(***************************************************************************)
EXTENDS Decimals, FiniteSets

CONSTANTS
    Glyphs,        \* characters
    PointerChars,  \* bound: what pointers are made of
    MaxPointer     \* bound: characters of a pointer, two fewer for each one before it

VARIABLES
    body,      \* the live response
    stored,    \* what is left of it
    pointer,   \* that is read
    withheld   \* pointers whose members are gone

pointerVars == <<body, stored, pointer, withheld>>

Slash   == "/"
Tilde   == "~"
Strings == Seq(Glyphs)

ASSUME PointerConstants ==
    /\ PointerChars \subseteq Glyphs /\ Slash \in Glyphs /\ Tilde \in Glyphs
    /\ \A i \in 0..9 : Digits[i + 1] \in Glyphs

Key(k)   == [kind |-> "key", key |-> k]
Index(n) == [kind |-> "index", index |-> n]
Steps    == [kind : {"key"}, key : Strings] \cup [kind : {"index"}, index : Nat]

\* A member or an element has its object or its array.
IsDocument(d) ==
    /\ <<>> \in DOMAIN d
    /\ d \in [DOMAIN d -> {"object", "array", "leaf"}]
    /\ \A p \in DOMAIN d : p \in Seq(Steps)
    /\ \A p \in DOMAIN d \ {<<>>} :
         /\ Front(p) \in DOMAIN d
         /\ d[Front(p)] = IF Last(p).kind = "key" THEN "object" ELSE "array"

-----------------------------------------------------------------------------
\* strings.Split at the slashes.
Split(s) ==
    LET split[t \in Strings] ==
          LET parts == split[Front(t)] IN
          IF t = <<>> THEN <<<<>>>>
          ELSE IF Last(t) = Slash THEN Append(parts, <<>>)
          ELSE Append(Front(parts), Append(Last(parts), Last(t)))
    IN split[s]

\* strings.ReplaceAll, and strings.Replacer, of a tilde and the character after
\* it.  Occurrences do not overlap.
Replaced(s, after, new) ==
    LET replaced[t \in Strings] ==
          LET out == replaced[Front(t)] IN
          IF t = <<>> THEN <<>>
          ELSE IF Front(t) # <<>> /\ Last(Front(t)) = Tilde /\ Last(t) \in after THEN Front(out) \o new
          ELSE Append(out, Last(t))
    IN replaced[s]

\* Whether every ~ of a token is part of ~0 or ~1.
Escaped(token) ==
    LET rest == Replaced(token, {"0", "1"}, <<>>) IN \A i \in DOMAIN rest : rest[i] # Tilde

\* Mutant: ~0 is replaced first.
UnescapeSwapped(token) == Replaced(Replaced(token, {"0"}, <<Tilde>>), {"1"}, <<Slash>>)

Unescape(token) == Replaced(Replaced(token, {"1"}, <<Slash>>), {"0"}, <<Tilde>>)

\* What a pointer is split into after its first slash, and read as.
Parts(s)  == Split(Tail(s))
Tokens(s) == [i \in DOMAIN Parts(s) |-> Unescape(Parts(s)[i])]

ValidPointer(s) ==
    s # <<>> /\ Head(s) = Slash /\ \A i \in DOMAIN Parts(s) : Escaped(Parts(s)[i])

\* Digits without a leading zero.
ArrayIndex(token) ==
    /\ token # <<>> /\ (Len(token) > 1 => token[1] # "0")
    /\ \A i \in DOMAIN token : IsDigit(token[i])

\* Whether a token leads from the value at v one step on.
Leads(d, v, token, step) ==
    /\ Append(v, step) \in DOMAIN d
    /\ \/ d[v] = "object" /\ step = Key(token)
       \/ d[v] = "array" /\ ArrayIndex(token) /\ step = Index(Decimal(token))

Resolves(d, tokens, p) ==
    /\ Len(p) = Len(tokens)
    /\ \A i \in 1..Len(p) : Leads(d, SubSeq(p, 1, i - 1), tokens[i], p[i])

\* The member removeMember deletes, if it deletes any.
Found(d, s) ==
    IF ValidPointer(s)
    THEN {p \in DOMAIN d \ {<<>>} : Resolves(d, Tokens(s), p) /\ d[Front(p)] = "object"}
    ELSE {}

Under(q, p)   == Len(p) <= Len(q) /\ SubSeq(q, 1, Len(p)) = p
Without(d, p) == [q \in {q \in DOMAIN d : ~Under(q, p)} |-> d[q]]

PointerInit ==
    IsDocument(body) /\ stored = body /\ pointer = <<>> /\ withheld = {}

Grow ==
    /\ Len(pointer) + 2 * Cardinality(withheld) < MaxPointer
    /\ \E c \in PointerChars : pointer' = Append(pointer, c)
    /\ UNCHANGED <<body, stored, withheld>>

\* A pointer that names no member ends the call without a stored body.
RemoveMember ==
    /\ \E p \in Found(stored, pointer) : stored' = Without(stored, p)
    /\ withheld' = withheld \cup {pointer}
    /\ pointer' = <<>>
    /\ UNCHANGED body

PointerNext == Grow \/ RemoveMember

PointerSpec == PointerInit /\ [][PointerNext]_pointerVars

-----------------------------------------------------------------------------
(* RFC 6901, read the other way: how the pointer of a value is written. *)

Code(c) == IF c = Tilde THEN <<Tilde, "0">> ELSE IF c = Slash THEN <<Tilde, "1">> ELSE <<c>>

Escape(key) ==
    LET escape[t \in Strings] == IF t = <<>> THEN <<>> ELSE escape[Front(t)] \o Code(Last(t))
    IN escape[key]

Text(step) == IF step.kind = "key" THEN step.key ELSE Numeral(step.index)

Written(p) ==
    LET written[q \in Seq(Steps)] ==
          IF q = <<>> THEN <<>> ELSE written[Front(q)] \o <<Slash>> \o Escape(Text(Last(q)))
    IN written[p]

Named(d, s) == {p \in DOMAIN d \ {<<>>} : d[Front(p)] = "object" /\ Written(p) = s}

\* The member that is removed is the one whose pointer is read, and there is
\* none for any other pointer.  What is stored is the response without the
\* members named in it, with what they hold, in whatever order they went.
RemovesTheNamed ==
    /\ Found(stored, pointer) = Named(stored, pointer)
    /\ \A s \in withheld : Named(body, s) # {}
    /\ stored = [q \in {q \in DOMAIN body :
                          \A s \in withheld : \A p \in Named(body, s) : ~Under(q, p)} |-> body[q]]

=============================================================================
