------------------------------ MODULE Bindings ------------------------------
(***************************************************************************)
(* internal/binding: bound values are put into the text of a statement in  *)
(* place of ? and :N, and array bindings turn one statement into several   *)
(* or into an INSERT of several rows.                                      *)
(*                                                                         *)
(* A text is a sequence of symbols.  x stands for any letter and 1 for any *)
(* digit; $$ for every pair of marks with text in between (comments of the *)
(* form of C are skipped the same way); -- is the beginning of a comment   *)
(* to the end of the line, as is a pair of minus signs (// is skipped the  *)
(* same way); newline is the white space that matters, and the others are  *)
(* left out.  Keywords are one symbol each, and what literal() puts around *)
(* a quoted text is one too.                                               *)
(***************************************************************************)
EXTENDS Integers, Sequences, FiniteSets, SequencesExt

CONSTANTS
    Alphabet,      \* symbols of statements with scalar bindings
    MaxText,       \* their length
    InsertSymbols, \* symbols of statements with array bindings, after INSERT
    MaxInsert,     \* their number
    ScalarChoices, \* bindings <<variable 1, variable 2>> of the former
    BulkChoices    \* and of the latter

ASSUME BindAssumption == {MaxText, MaxInsert} \subseteq Nat

VARIABLE bindAsk

IsIdentChar(c) == c \in {"1", "x", "$$"}
At(t, i, c)    == i \in 1 .. Len(t) /\ t[i] = c

Error  == [ok |-> FALSE, out |-> <<>>]
Good(t) == [ok |-> TRUE, out |-> t]
Prepend(t, r) == [r EXCEPT !.out = t \o @]

----------------------------------------------------------------------------
(* The least position from i on where a symbol is, or past the end. *)
IndexFrom(t, i, c) ==
    IF \E j \in i .. Len(t) : t[j] = c
    THEN CHOOSE j \in i .. Len(t) : t[j] = c /\ \A k \in i .. j - 1 : t[k] # c
    ELSE Len(t) + 1

RECURSIVE SkipQuoted(_, _, _)
(* The index past the quoted text that t[i] is inside of; a doubled quote q *)
(* is part of it.                                                           *)
SkipQuoted(t, i, q) ==
    LET j == IndexFrom(t, i, q)
    IN  IF j > Len(t) THEN j ELSE IF At(t, j + 1, q) THEN SkipQuoted(t, j + 2, q) ELSE j + 1

SkipUntil(t, i) ==
    LET j == IndexFrom(t, i, "$$") IN IF j > Len(t) THEN j ELSE j + 1

CommentAt(t, i) == t[i] = "--" \/ (t[i] = "-" /\ At(t, i + 1, "-"))

(* The index past what begins at i and holds no placeholder, or i: a text,  *)
(* a quoted name, a dollar-quoted text or a comment.                        *)
SkipSpecial(t, i) ==
    CASE t[i] \in {"'", "\""} -> SkipQuoted(t, i + 1, t[i])
      [] t[i] = "$$"          -> SkipUntil(t, i + 1)
      [] CommentAt(t, i)      -> IndexFrom(t, i, "newline")
      [] OTHER                -> i

(* The index past the digits from i on. *)
SkipDigits(t, i) ==
    CHOOSE j \in i .. Len(t) + 1 :
        (\A k \in i .. j - 1 : t[k] = "1") /\ ~At(t, j, "1")

(* The number after a colon: one digit is 1, more is above all variables. *)
VarNo(digits) == IF digits = 1 THEN 1 ELSE 11

RECURSIVE Render(_, _, _, _)
(* The text from i on with the placeholders replaced by vals; the next ?    *)
(* has number n.                                                            *)
Render(t, i, n, vals) ==
    IF i > Len(t) THEN Good(<<>>)
    ELSE IF SkipSpecial(t, i) # i
    THEN LET j == SkipSpecial(t, i) IN Prepend(SubSeq(t, i, j - 1), Render(t, j, n, vals))
    ELSE IF t[i] = "?"
    THEN IF n \in DOMAIN vals THEN Prepend(vals[n], Render(t, i + 1, n + 1, vals)) ELSE Error
    ELSE IF t[i] = ":" /\ At(t, i + 1, ":")
    THEN Prepend(<<":", ":">>, Render(t, i + 2, n, vals))
    ELSE LET j == SkipDigits(t, i + 1)
             number == VarNo(j - i - 1)
         IN  IF t[i] # ":" \/ j = i + 1 \/ (j <= Len(t) /\ IsIdentChar(t[j]))
                           \/ (i > 1 /\ IsIdentChar(t[i - 1]))
             THEN Prepend(<<t[i]>>, Render(t, i + 1, n, vals))
             ELSE IF number \in DOMAIN vals
             THEN Prepend(vals[number], Render(t, j, n, vals)) ELSE Error

----------------------------------------------------------------------------
(* Faulty variant: quotes inside a text are not doubled. *)
quoteAsIs(v) == <<"'">> \o v \o <<"'">>

quote(v) ==
    <<"'">> \o FlattenSeq([i \in 1 .. Len(v) |-> IF v[i] = "'" THEN <<"'", "'">> ELSE <<v[i]>>])
            \o <<"'">>

Unsigned(v) == IF At(v, 1, "-") \/ At(v, 1, "+") THEN Tail(v) ELSE v

(* The regular expressions of integers and decimals. *)
IsNumber(v) == Unsigned(v) # <<>> /\ ToSet(Unsigned(v)) = {"1"}

parenNegative(v) ==
    IF At(v, 1, "-") THEN <<"(">> \o v \o <<")">> ELSE IF At(v, 1, "+") THEN Tail(v) ELSE v

IsHex(v) == Len(v) % 2 = 0 /\ ToSet(v) \subseteq {"1"}

(* strconv.ParseFloat takes what is no finite number, too. *)
NotFinite(v) == Unsigned(v) \in {<<"NaN">>, <<"Infinity">>}

(* A binding as text: numbers and hexadecimal digits are checked, all else  *)
(* is quoted.  Times given as numbers are formatted, which yields a text    *)
(* without quotes; TIME and the TIMESTAMPs are like DATE.                   *)
literal(b) ==
    CASE b.type = "NULL"    -> Good(<<"NULL">>)
      [] b.type = "ARRAY"   -> Error
      [] b.type = "FIXED"   -> IF IsNumber(b.value) THEN Good(parenNegative(b.value)) ELSE Error
      [] b.type = "REAL"    -> IF IsNumber(b.value)
                               THEN Good(parenNegative(b.value) \o <<"::DOUBLE">>)
                               ELSE IF NotFinite(b.value)
                               THEN Good(quote(b.value) \o <<"::DOUBLE">>) ELSE Error
      [] b.type = "BOOLEAN" -> IF b.value = <<"1">> THEN Good(<<"TRUE">>) ELSE Error
      [] b.type = "DATE"    -> Good(<<"CAST(">> \o quote(b.value) \o <<"AS DATE)">>)
      [] b.type = "BINARY"  -> IF IsHex(b.value)
                               THEN Good(<<"from_hex(">> \o quote(b.value) \o <<")">>) ELSE Error
      [] OTHER              -> Good(quote(b.value))

(* A variable without a valid literal counts as not set. *)
Substitute(t, binds) ==
    LET good == {n \in DOMAIN binds : literal(binds[n]).ok}
    IN  IF DOMAIN binds = {} THEN Good(t)
        ELSE Render(t, 1, 1, [n \in good |-> literal(binds[n]).out])

FillNull(t) == Render(t, 1, 1, [n \in 1 .. Len(t) + 11 |-> <<"NULL">>]).out

----------------------------------------------------------------------------
(* Array bindings: a binding of type ARRAY holds a binding for each row. *)
IsBulk(binds) == \E n \in DOMAIN binds : binds[n].type = "ARRAY"

Arrays(binds) == {n \in DOMAIN binds : binds[n].type = "ARRAY"}

(* The rows, or none at all if the arrays differ in length or are empty. *)
SplitRows(binds) ==
    LET lengths == {Len(binds[n].value) : n \in Arrays(binds)}
    IN  IF Cardinality(lengths) # 1 THEN <<>>
        ELSE [r \in 1 .. (CHOOSE l \in lengths : TRUE) |->
                [n \in DOMAIN binds |->
                    IF n \in Arrays(binds) THEN binds[n].value[r] ELSE binds[n]]]

RECURSIVE Depths(_, _, _)
(* The positions from i on outside quoted text and comments, each with the  *)
(* number of parentheses open there; d are open at i.                       *)
Depths(t, i, d) ==
    IF i > Len(t) THEN {}
    ELSE IF SkipSpecial(t, i) # i THEN Depths(t, SkipSpecial(t, i), d)
    ELSE {<<i, d>>} \cup
         Depths(t, i + 1, CASE t[i] = "(" -> d + 1 [] t[i] = ")" -> d - 1 [] OTHER -> d)

Occurs(t, c, d) == {p[1] : p \in {q \in Depths(t, 1, 0) : t[q[1]] = c /\ q[2] = d}}

(* The first VALUES that is in no parentheses, or past the end. *)
ValuesAt(t) ==
    LET found == Occurs(t, "VALUES", 0)
    IN  IF found = {} THEN Len(t) + 1 ELSE CHOOSE i \in found : \A j \in found : i <= j

HasPlaceholder(t) == ~Render(t, 1, 1, <<>>).ok

(* strings.TrimSpace. *)
TrimSpace(t) ==
    LET ink == {i \in 1 .. Len(t) : t[i] # "newline"}
    IN  IF ink = {} THEN <<>> ELSE SubSeq(t, Min(ink), Max(ink))

(* Faulty variant: any text after VALUES will do. *)
SplitLoosely(text) ==
    LET t      == TrimSpace(text)
        at     == ValuesAt(t)
        prefix == TrimSpace(SubSeq(t, 1, at - 1))
    IN  [prefix |-> prefix, tuple |-> TrimSpace(SubSeq(t, at + 1, Len(t))),
         ok |-> at < Len(t) /\ ~HasPlaceholder(prefix)]

(* INSERT, no placeholder, VALUES and one pair of parentheses to the end    *)
(* (of a text without a final semicolon, which is cut off).                 *)
SplitInsertValues(text) ==
    LET t      == TrimSpace(text)
        at     == ValuesAt(t)
        prefix == TrimSpace(SubSeq(t, 1, at - 1))
        tuple  == TrimSpace(SubSeq(t, at + 1, Len(t)))
    IN  [prefix |-> prefix, tuple |-> tuple,
         ok |-> /\ At(t, 1, "INSERT") /\ at <= Len(t)
                /\ At(tuple, 1, "(") /\ ~HasPlaceholder(prefix)
                /\ Occurs(tuple, ")", 1) = {Len(tuple)}]

Join(texts) == FlattenSeq([r \in 1 .. Len(texts) |-> (IF r = 1 THEN <<>> ELSE <<",">>) \o texts[r]])

AllGood(results) == \A r \in 1 .. Len(results) : results[r].ok
Outs(results) == [r \in 1 .. Len(results) |-> results[r].out]

(* The statements to execute; none where there is an error. *)
Expand(t, binds) ==
    IF ~IsBulk(binds)
    THEN IF Substitute(t, binds).ok THEN <<Substitute(t, binds).out>> ELSE <<>>
    ELSE LET rows  == SplitRows(binds)
             split == SplitInsertValues(t)
             subst == [r \in 1 .. Len(rows) |->
                          Substitute(IF split.ok THEN split.tuple ELSE t, rows[r])]
         IN  IF rows = <<>> \/ ~AllGood(subst) THEN <<>>
             ELSE IF split.ok
             THEN <<split.prefix \o <<"VALUES">> \o Join(Outs(subst))>>
             ELSE Outs(subst)

----------------------------------------------------------------------------
NoAsk == [ask |-> "nothing"]

BindInit == bindAsk = NoAsk

AskScalar(t, binds) == bindAsk' = [ask |-> "scalar", text |-> t, binds |-> binds]
AskBulk(t, binds)   == bindAsk' = [ask |-> "bulk", text |-> t, binds |-> binds]

BindReturn == bindAsk # NoAsk /\ bindAsk' = NoAsk

(* A statement is asked about after every symbol that it grows by, unless   *)
(* arrays without rows have settled the answer.                             *)
BindNext ==
    \/ /\ bindAsk = NoAsk
       /\ \/ \E binds \in ScalarChoices : AskScalar(<<>>, binds)
          \/ \E binds \in BulkChoices : AskBulk(<<"INSERT">>, binds)
    \/ /\ bindAsk.ask = "scalar" /\ Len(bindAsk.text) < MaxText
       /\ \E c \in Alphabet : AskScalar(Append(bindAsk.text, c), bindAsk.binds)
    \/ /\ bindAsk.ask = "bulk" /\ Len(bindAsk.text) <= MaxInsert
       /\ SplitRows(bindAsk.binds) # <<>>
       /\ \E c \in InsertSymbols : AskBulk(Append(bindAsk.text, c), bindAsk.binds)
    \/ BindReturn

BindSpec == BindInit /\ [][BindNext]_bindAsk

----------------------------------------------------------------------------
RECURSIVE Shape(_, _, _)
(* How a reader of SQL sees a text: #, name, $$ or -- for what is quoted or *)
(* a comment, and every other symbol.                                       *)
Shape(t, i, in) ==
    IF i > Len(t) THEN <<>>
    ELSE CASE in = "out" /\ t[i] = "'"  -> <<"#">> \o Shape(t, i + 1, "str")
           [] in = "out" /\ t[i] = "\"" -> <<"name">> \o Shape(t, i + 1, "name")
           [] in = "out" /\ t[i] = "$$" -> <<"$$">> \o Shape(t, i + 1, "dollar")
           [] in = "out" /\ CommentAt(t, i) -> <<"--">> \o Shape(t, i + 1, "line")
           [] in = "out"                -> <<t[i]>> \o Shape(t, i + 1, "out")
           [] in = "str" /\ t[i] = "'" /\ At(t, i + 1, "'") -> Shape(t, i + 2, "str")
           [] in = "str" /\ t[i] = "'"     -> Shape(t, i + 1, "out")
           [] in = "name" /\ t[i] = "\"" /\ At(t, i + 1, "\"") -> Shape(t, i + 2, "name")
           [] in = "name" /\ t[i] = "\""   -> Shape(t, i + 1, "out")
           [] in = "dollar" /\ t[i] = "$$" -> Shape(t, i + 1, "out")
           [] in = "line" /\ t[i] = "newline" -> <<"newline">> \o Shape(t, i + 1, "out")
           [] OTHER                        -> Shape(t, i + 1, in)

Marks == <<"mark 1", "mark 2">>

(* The text with a mark for each placeholder. *)
Marked(t) == Render(t, 1, 1, [n \in 1 .. 2 |-> <<Marks[n]>>])

(* In SQL an operand does not stand right beside a quoted text or another   *)
(* operand.                                                                 *)
Separated(m) ==
    \A i \in 1 .. Len(m) - 1 :
        /\ m[i] \in ToSet(Marks) => m[i + 1] \notin ToSet(Marks) \cup {"'"}
        /\ m[i + 1] \in ToSet(Marks) => m[i] # "'"

(* Bound values never change what a statement looks like to a reader of     *)
(* SQL: each placeholder has become the literal of its own variable, and    *)
(* all else is as before, whatever quotes, signs and question marks the     *)
(* values hold.  (binding.go:147: "bound data can never alter the structure *)
(* of the statement")                                                       *)
BoundValuesInert ==
    bindAsk.ask = "scalar" =>
        LET m == Marked(bindAsk.text)
            r == Substitute(bindAsk.text, bindAsk.binds)
            own(s) == IF s \in ToSet(Marks)
                      THEN Shape(literal(bindAsk.binds[IF s = Marks[1] THEN 1 ELSE 2]).out, 1, "out")
                      ELSE <<s>>
            before == Shape(m.out, 1, "out")
        IN  r.ok /\ Separated(m.out) =>
                Shape(r.out, 1, "out") = FlattenSeq([i \in 1 .. Len(before) |-> own(before[i])])

(* The colons of a text so reduced that begin a numbered placeholder: not   *)
(* one of the pairs of a cast, and the number is no part of a name.         *)
Numbered(b) ==
    LET Colons(i) == CHOOSE k \in 0 .. i - 1 :
                        (\A j \in i - k .. i - 1 : b[j] = ":") /\ ~At(b, i - k - 1, ":")
    IN  {i \in 1 .. Len(b) :
            /\ b[i] = ":" /\ At(b, i + 1, "1") /\ Colons(i) % 2 = 0
            /\ i > 1 => ~IsIdentChar(b[i - 1])
            /\ SkipDigits(b, i + 1) <= Len(b) => ~IsIdentChar(b[SkipDigits(b, i + 1)])}

(* The placeholders found are those a reader of SQL sees, outside quoted    *)
(* text, comments, casts and names: FillNull, which describes a statement   *)
(* before values are bound, puts that many NULLs and keeps all else.        *)
PlaceholdersFound ==
    bindAsk.ask = "scalar" =>
        LET before == Shape(bindAsk.text, 1, "out")
            filled == FillNull(bindAsk.text)
            after  == Shape(filled, 1, "out")
            Kept(b) == SelectSeq(b, LAMBDA c : c \notin {"NULL", "?", ":", "1"})
        IN  /\ Len(SelectSeq(filled, LAMBDA c : c = "NULL")) =
               Len(SelectSeq(before, LAMBDA c : c = "?")) + Cardinality(Numbered(before))
            /\ Kept(after) = Kept(before)

(* The rows of an INSERT of several, each as a statement of its own. *)
Unfold(t) ==
    LET head == ValuesAt(t)
        ends == SetToSortSeq(Occurs(t, ",", 0) \cup {head, Len(t) + 1}, <)
    IN  [r \in 1 .. Len(ends) - 1 |->
            SubSeq(t, 1, head) \o SubSeq(t, ends[r] + 1, ends[r + 1] - 1)]

Inked(t) == SelectSeq(t, LAMBDA c : c # "newline")

(* The same text and the same reading of it, but for line breaks. *)
SaysTheSame(a, b) ==
    Inked(a) = Inked(b) /\ Inked(Shape(a, 1, "out")) = Inked(Shape(b, 1, "out"))

AllSayTheSame(as, bs) == Len(as) = Len(bs) /\ \A r \in 1 .. Len(as) : SaysTheSame(as[r], bs[r])

(* What the statements say when each row is executed alone, in order; one   *)
(* bad row leaves nothing to execute.                                       *)
SameRows(stmts, alone) ==
    IF alone = <<>> \/ ~AllGood(alone) THEN stmts = <<>>
    ELSE \/ stmts = Outs(alone)
         \/ Len(stmts) = 1 /\ AllSayTheSame(Unfold(stmts[1]), Outs(alone))

(* What follows t is part of a comment that t ends with. *)
EndsInComment(t) == Shape(Append(t, "x"), 1, "out") = Shape(t, 1, "out")

(* A request with arrays gives every row its own values and no other: the   *)
(* statements, or the tuples of the one INSERT they are folded into, are    *)
(* what each row alone would give, in order; and one bad row leaves nothing *)
(* to execute.  (bulk.go:32)  The exception is a comment to the end of the  *)
(* line right before VALUES: bulk.go:147 cuts off the line break that ends  *)
(* it, and the folded VALUES and its rows become part of the comment.       *)
BulkMatchesRows ==
    LET split == SplitInsertValues(bindAsk.text)
    IN  /\ bindAsk.ask = "bulk" /\ IsBulk(bindAsk.binds)
        /\ Separated(Marked(bindAsk.text).out) /\ ~(split.ok /\ EndsInComment(split.prefix))
        => LET rows == SplitRows(bindAsk.binds)
           IN  SameRows(Expand(bindAsk.text, bindAsk.binds),
                        [r \in 1 .. Len(rows) |-> Substitute(bindAsk.text, rows[r])])

(* Binding fills exactly the placeholders of a statement, each with a       *)
(* literal that stays one (binding.go:70, render).                          *)
SubstitutionFaithful == BoundValuesInert /\ PlaceholdersFound
=============================================================================
