----------------------------- MODULE Classifier -----------------------------
(***************************************************************************)
(* src/sql_guard/classifier.rs: which statements may run while the write   *)
(* window is closed.                                                       *)
(*                                                                         *)
(* A text is a sequence of units: a word or a punctuation mark that is     *)
(* followed by a blank, or one of the marks that open and close comments,  *)
(* literals and quoted names, or one of the two characters that end a line *)
(* for Postgres; "E" is the letter, and the opening of a string with       *)
(* escapes when a quote follows it at once.  tokenize drops the comments,  *)
(* turns what is quoted into opaque tokens, and the rest of the code looks *)
(* at the words that are left.                                             *)
(***************************************************************************)
EXTENDS Integers, Sequences, FiniteSets, SequencesExt

CONSTANT Grammars  \* [first, rest, longest]: the units a text begins with, those it goes
                   \* on with, and how many it has at most

\* What tokenize makes of something quoted, and of a text it cannot read, is no
\* unit of a text.
Opaque == {"literal", "quoted name"}
ASSUME GrammarsAssumption ==
    \A g \in Grammars : (g.first \cup g.rest) \cap (Opaque \cup {"error"}) = {}

VARIABLES grammar, text
classifierVars == <<grammar, text>>

\* Words by what the code asks of them; every other word is only a name.
DataModifying == {"insert", "update", "delete", "merge"}
WriteWordsAnywhere == DataModifying \cup {"truncate", "drop", "alter", "create", "grant", "revoke"}
SideEffectFunctions == {"nextval", "setval", "dblink", "pg_cancel_backend"}
QueryHeads == {"select", "with", "table", "values"}
LockWords == {"update", "share", "no", "key"}
ExplainOptions == {"verbose", "costs", "buffers", "format"}
Analyze == {"analyze", "analyse"}
OtherWords == {"show", "explain", "into", "for", "set", "x"}

Word == WriteWordsAnywhere \cup SideEffectFunctions \cup QueryHeads \cup LockWords
            \cup ExplainOptions \cup Analyze \cup OtherWords

\* E'...': a string in which a backslash escapes.
OpensEscapes(s, i) == s[i] = "E" /\ i < Len(s) /\ s[i + 1] = "'"

-----------------------------------------------------------------------------
(* tokenize.                                                               *)

Unterminated == -1
Leq(S) == IF S = {} THEN Unterminated ELSE CHOOSE i \in S : \A j \in S : i <= j

\* A line comment ends at a line feed or at the end of the text.
LineEnd(s, i) == IF \E j \in i..Len(s) : s[j] = "LF"
                 THEN Leq({j \in i..Len(s) : s[j] = "LF"}) ELSE Len(s) + 1

\* Mistake: a block comment ends at the first end mark.
BlockEndFlat(s, i) == LET ends == {j \in (i + 1)..Len(s) : s[j] = "*/"} IN
                      IF ends = {} THEN Unterminated ELSE Leq(ends) + 1

\* Block comments nest: behind the first place where as many are closed as open.
Marks(s, i, j, mark) == Cardinality({k \in i..j : s[k] = mark})
BlockEnd(s, i) ==
    LET ends == {j \in (i + 1)..Len(s) : Marks(s, i, j, "/*") = Marks(s, i, j, "*/")} IN
    IF ends = {} THEN Unterminated ELSE Leq(ends) + 1

\* Behind the closing mark of what opens at i.  A doubled mark does not close;
\* a backslash hides the unit behind it, where it escapes.
QuotedEnd(s, i, mark, escapes) ==
    LET end[j \in Nat \ {0}] ==
            IF j > Len(s) THEN Unterminated
            ELSE CASE escapes /\ s[j] = "backslash" -> end[j + 2]
                   [] s[j] = mark -> IF j < Len(s) /\ s[j + 1] = mark THEN end[j + 2] ELSE j + 1
                   [] OTHER -> end[j + 1]
    IN end[i + 1]

DollarEnd(s, i) == LET ends == {j \in (i + 1)..Len(s) : s[j] = "$$"} IN
                   IF ends = {} THEN Unterminated ELSE Leq(ends) + 1

\* Where the code goes on after the unit at i.
After(s, i) == CASE s[i] = "--" -> LineEnd(s, i)
                 [] s[i] = "/*" -> BlockEnd(s, i)
                 [] s[i] = "'" -> QuotedEnd(s, i, "'", FALSE)
                 [] OpensEscapes(s, i) -> QuotedEnd(s, i + 1, "'", TRUE)
                 [] s[i] = "quote" -> QuotedEnd(s, i, "quote", FALSE)
                 [] s[i] = "$$" -> DollarEnd(s, i)
                 [] OTHER -> i + 1

\* The tokens of the text, or the one token "error".
TokenOf(s, i) == CASE s[i] \in {"--", "/*", "CR", "LF"} -> <<>>
                   [] s[i] \in {"'", "$$"} \/ OpensEscapes(s, i) -> <<"literal">>
                   [] s[i] = "quote" -> <<"quoted name">>
                   [] OTHER -> <<s[i]>>
Error == <<"error">>
Tokenize(s) ==
    LET from[i \in Nat \ {0}] ==
            LET next == After(s, i)
                rest == from[next]
            IN CASE i > Len(s) -> <<>>
                 [] i <= Len(s) /\ (next = Unterminated \/ rest = Error) -> Error
                 [] OTHER -> TokenOf(s, i) \o rest
    IN from[1]

-----------------------------------------------------------------------------
(* classify.                                                               *)

WithoutTrailing(tokens) ==
    LET last == {i \in DOMAIN tokens : tokens[i] # ";"} IN
    IF last = {} THEN <<>> ELSE SubSeq(tokens, 1, CHOOSE i \in last : \A j \in last : j <= i)

\* Mistake: the parentheses are counted from one.
DepthOffByOne(tokens, i) ==
    1 + Cardinality({j \in 1..i : tokens[j] = "("}) - Cardinality({j \in 1..i : tokens[j] = ")"})

Depth(tokens, i) ==
    Cardinality({j \in 1..i : tokens[j] = "("}) - Cardinality({j \in 1..i : tokens[j] = ")"})

Follows(tokens, i, set) == i < Len(tokens) /\ tokens[i + 1] \in set

\* classify_query_body: none of the ways in which a query can still write.
QueryReads(tokens) ==
    \A i \in DOMAIN tokens :
        /\ tokens[i] \notin DataModifying
        /\ tokens[i] = "into" => Depth(tokens, i) # 0
        /\ tokens[i] = "for" => ~Follows(tokens, i, LockWords)
        /\ tokens[i] \in SideEffectFunctions => ~Follows(tokens, i, {"("})

\* classify_explain: behind the options, 0 if ANALYZE is among them.
OptionsEnd(tokens) ==
    IF Follows(tokens, 1, {"("})
    THEN LET ends == {i \in 2..Len(tokens) : Depth(tokens, i) = 0}
             end == IF ends = {} THEN Len(tokens) ELSE Leq(ends)
         IN IF \E i \in 2..end : tokens[i] \in Analyze THEN 0 ELSE end + 1
    ELSE LET others == {i \in 2..Len(tokens) : tokens[i] \notin ExplainOptions}
             end == IF others = {} THEN Len(tokens) + 1 ELSE Leq(others)
         IN IF end <= Len(tokens) /\ tokens[end] \in Analyze THEN 0 ELSE end

\* classify_statement, from the token at i; an explained statement is judged
\* on its own.
StatementReads(all) ==
    LET reads[i \in Nat \ {0}] ==
            LET tokens == SubSeq(all, i, Len(all))
                heads == {j \in DOMAIN tokens : tokens[j] # "("}
                head == Leq(heads)
            IN /\ heads # {}
               /\ \/ tokens[head] \in QueryHeads /\ QueryReads(tokens)
                  \/ tokens[head] = "show"
                  \/ /\ tokens[head] = "explain"
                     /\ LET end == OptionsEnd(SubSeq(tokens, head, Len(tokens))) IN
                        end # 0 /\ end <= Len(tokens) - head + 1 /\ reads[i + head - 1 + end - 1]
    IN reads[1]

\* raw_text_mentions_write_word: comments and literals included.
MentionsWriteWord(s) == \E i \in DOMAIN s : s[i] \in WriteWordsAnywhere

Classify(s) ==
    LET tokens == WithoutTrailing(Tokenize(s)) IN
    IF /\ tokens # Error /\ tokens # <<>>
       /\ \A i \in DOMAIN tokens : tokens[i] # ";"
       /\ StatementReads(tokens) /\ ~MentionsWriteWord(s)
    THEN "read" ELSE "write"

-----------------------------------------------------------------------------
(* Every text there is, unit by unit.                                      *)

ClassifierInit == \E g \in Grammars : grammar = g /\ \E u \in g.first : text = <<u>>
Type(u) == Len(text) < grammar.longest /\ text' = Append(text, u) /\ UNCHANGED grammar
ClassifierNext == \E u \in grammar.rest : Type(u)

-----------------------------------------------------------------------------
(* Properties.                                                             *)

LineEnds == {"CR", "LF"}
LineModes == {"line", "commented"}
Ended == {"closing", "continued"}
Bare == {"open", "e"} \cup Ended

(* What Postgres sees of a text, read from left to right with one mode: in *)
(* the open, in a comment (how deep), in a string, behind a backslash, or  *)
(* behind an E in the open.  A string with escapes ends at a mark that no  *)
(* other follows at once, and none in a later line behind nothing but ends *)
(* of lines and line comments: such a mark continues it.                   *)
In(what) == [in |-> what, depth |-> 0]
Starts(u) == CASE u = "--" -> In("line") [] u = "/*" -> [in |-> "block", depth |-> 1]
               [] u = "'" -> In("string") [] u = "E" -> In("e")
               [] u = "quote" -> In("name") [] u = "$$" -> In("dollar") [] OTHER -> In("open")
FromBare(mode, u) == IF mode # "open" /\ u = "'" THEN In("escapes")
                     ELSE IF mode \in Ended /\ u \in LineEnds THEN In("continued")
                     ELSE IF mode \in Ended /\ u = "--" THEN In("commented") ELSE Starts(u)
Mode(m, u) ==
    CASE m.in \in LineModes /\ u \in LineEnds -> In(IF m.in = "line" THEN "open" ELSE "continued")
      [] m.in = "block" /\ u = "/*" -> [m EXCEPT !.depth = @ + 1]
      [] m.in = "block" /\ u = "*/" /\ m.depth > 1 -> [m EXCEPT !.depth = @ - 1]
      [] m.in = "block" /\ u = "*/" /\ m.depth = 1 -> In("open")
      [] <<m.in, u>> \in {<<"string", "'">>, <<"name", "quote">>, <<"dollar", "$$">>} -> In("open")
      [] m.in = "escapes" /\ u = "backslash" -> In("hidden")
      [] m.in = "escapes" /\ u = "'" -> In("closing")
      [] m.in = "hidden" -> In("escapes")
      [] m.in \in Bare -> FromBare(m.in, u)
      [] OTHER -> m

\* The mode in front of every unit, and at the end.
Modes(s) == LET before[i \in 1..(Len(s) + 1)] ==
                    IF i = 1 THEN In("open") ELSE Mode(before[i - 1], s[i - 1])
            IN [i \in 1..(Len(s) + 1) |-> before[i].in]
Complete(s) == Modes(s)[Len(s) + 1] \in Bare \cup LineModes

\* Where what Postgres reads begins: in the open, but not with the mark that opens
\* a string again, be it doubled, behind an E or in a later line.
Doubled(modes, s, i) ==
    i > 1 /\ s[i - 1] = s[i] /\ <<modes[i - 1], s[i]>> \in {<<"string", "'">>, <<"name", "quote">>}
Begun(s) == LET modes == Modes(s) IN
            {i \in DOMAIN s : /\ modes[i] \in Bare /\ ~Doubled(modes, s, i)
                              /\ s[i] = "'" => modes[i] = "open"}

\* The text as Postgres reads it: its words and marks, and one token for every
\* literal and quoted name.
Lexed(s) ==
    LET begun == Begun(s)
        from[i \in Nat \ {0}] ==
            IF i > Len(s) THEN <<>> ELSE (IF i \in begun THEN TokenOf(s, i) ELSE <<>>) \o from[i + 1]
    IN from[1]

\* The code ends a line where Postgres does, and no string where Postgres goes on:
\* in a comment a carriage return stands only before a line feed or at the end, and
\* no string with escapes is continued in a later line.
Ordinary(s) ==
    LET modes == Modes(s) IN
    \A i \in DOMAIN s :
        /\ s[i] = "CR" /\ modes[i] \in LineModes => i = Len(s) \/ s[i + 1] = "LF"
        /\ s[i] = "'" => modes[i] # "continued"

\* The code and Postgres see the same statement: of every ordinary text tokenize
\* makes what Postgres reads, and the texts it refuses are the ones in which
\* something is left open (tokenize).
SameStatement ==
    Ordinary(text) => Tokenize(text) = IF Complete(text) THEN Lexed(text) ELSE Error

\* In Postgres a query writes if it has an INTO or a locking clause, or calls a
\* function with side effects; a quoted name may be the name of one.
MayWrite(tokens, i) ==
    \/ tokens[i] = "into"
    \/ tokens[i] = "for" /\ Follows(tokens, i, LockWords)
    \/ tokens[i] \in SideEffectFunctions \cup {"quoted name"} /\ Follows(tokens, i, {"("})

Headed(tokens, words) ==
    \E head \in DOMAIN tokens : tokens[head] \in words /\ \A i \in 1..(head - 1) : tokens[i] = "("
ReadsOnly(tokens) ==
    \/ Headed(tokens, {"show"})
    \/ Headed(tokens, QueryHeads) /\ \A i \in DOMAIN tokens : ~MayWrite(tokens, i)

\* The two of these that the code does not look for: an INTO inside parentheses,
\* and a call by a quoted name.
Overlooked(tokens, i) ==
    /\ tokens[i] = "into" => Marks(tokens, 1, i, "(") # Marks(tokens, 1, i, ")")
    /\ tokens[i] \in {"into", "quoted name"} /\ MayWrite(tokens, i)

\* In front of the statement at p stands what only explains it: no ANALYZE, and
\* no word that begins a statement, unless it is an option in parentheses.
Explains(tokens, p) ==
    /\ \E i \in 1..(p - 1) : tokens[i] = "explain"
    /\ \A i \in 1..(p - 1) :
           /\ tokens[i] \notin Analyze
           /\ tokens[i] \in QueryHeads \cup {"show"} =>
                  \E a \in 1..(i - 1), b \in (i + 1)..(p - 1) : tokens[a] = "(" /\ tokens[b] = ")"

\* The statement, and what it may explain.
Judged(tokens) == {SubSeq(tokens, p, Len(tokens)) :
                       p \in {q \in DOMAIN tokens : q = 1 \/ Explains(tokens, q)}}

\* An ordinary text runs with the window closed only if it is complete and one
\* statement, without a word that vetoes anywhere in it, and a query or a SHOW that
\* in Postgres only reads, or an EXPLAIN that does not run the one it explains,
\* unless something is overlooked in it; and such a query or SHOW does run
\* (classify).
ReadMeansHarmless ==
    LET tokens == WithoutTrailing(Lexed(text))
        harmless == /\ Complete(text) /\ Range(text) \cap WriteWordsAnywhere = {}
                    /\ ";" \notin Range(tokens) /\ \E t \in Judged(tokens) : ReadsOnly(t)
        overlooked == \E t \in Judged(tokens) : /\ Headed(t, QueryHeads)
                                                   /\ \E i \in DOMAIN t : Overlooked(t, i)
    IN Ordinary(text) => /\ Classify(text) = "read" /\ ~overlooked => harmless
                         /\ harmless /\ "explain" \notin Range(tokens) => Classify(text) = "read"
=============================================================================
