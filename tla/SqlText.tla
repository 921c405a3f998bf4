------------------------------- MODULE SqlText -------------------------------
(***************************************************************************)
(* Where PostgreSQL ends a statement, said without a scan: a text is       *)
(* covered by lexical elements, of which the quoted strings, the dollar    *)
(* quotes and the comments are long, and a statement ends where an element *)
(* is a semicolon.  The characters are those of Splitter.                  *)
(***************************************************************************)
EXTENDS Splitter

Letter == Char \ {"'", "-", "/", "*", "$", "semi", "nl", "sp"}

FirstOr(S, otherwise) == IF S = {} THEN otherwise ELSE Min(S)

(* $$ and $name$, where no name goes on into the dollar                    *)
TagsAt(t, p) ==
  {SubSeq(t, p, q) : q \in
     {e \in (p + 1)..Len(t) :
        /\ t[p] = "$" /\ t[e] = "$"
        /\ \A m \in (p + 1)..(e - 1) : t[m] \in Letter
        /\ p > 1 => t[p - 1] \notin Letter}}

ClosedTagsAt(t, p) == {tag \in TagsAt(t, p) : Places(t, tag, p + Len(tag)) # {}}

Stands(t, p, pat) == p \in Places(t, pat, p)

(* The last position of the element that starts at p; an element that is   *)
(* not closed goes on to the end of the text.  A quote in a string is      *)
(* doubled, which makes two strings side by side: the same for this        *)
(* purpose.                                                                *)
ElementEnd(t, p) ==
  CASE Stands(t, p, <<"'">>) -> FirstOr(Places(t, <<"'">>, p + 1), Len(t))
    [] Stands(t, p, <<"-", "-">>) -> FirstOr(Places(t, <<"nl">>, p + 2), Len(t))
    [] Stands(t, p, <<"/", "*">>) ->
         FirstOr({q + 1 : q \in Places(t, <<"*", "/">>, p + 2)}, Len(t))
    [] ClosedTagsAt(t, p) # {} ->
         LET tag == CHOOSE g \in ClosedTagsAt(t, p) : TRUE IN
         Min(Places(t, tag, p + Len(tag))) + Len(tag) - 1
    [] OTHER -> p

(* The last position of the element each position lies in                  *)
Cover(t) ==
  LET cover[p \in 0..Len(t)] ==
        IF p = 0 THEN 0
        ELSE LET before == cover[p - 1] IN
             IF p <= before THEN before ELSE ElementEnd(t, p)
  IN  cover

Starts(t) == LET cover == Cover(t) IN {p \in DOMAIN t : cover[p - 1] = p - 1}

IsComment(t, p) == Stands(t, p, <<"-", "-">>) \/ Stands(t, p, <<"/", "*">>)

Comments(t) == {p \in Starts(t) : IsComment(t, p)}

InComment(t) == UNION {p..ElementEnd(t, p) : p \in Comments(t)}

(* The text between two positions, without its comments                    *)
Between(t, a, b) ==
  LET comments == InComment(t) IN
  FlattenSeq([k \in 1..(b - a - 1) |->
                IF a + k \in comments THEN <<>> ELSE <<t[a + k]>>])

(* A statement ends at a semicolon that is an element, and with the text.  *)
Ends(t) == {p \in Starts(t) : t[p] = "semi"} \cup {Len(t) + 1}

EndBefore(t, p) == Max({0} \cup {e \in Ends(t) : e < p})

(* The statement that ends at p, if there is one and it is not empty       *)
StatementAt(t, p) ==
  LET s == TrimSpace(Between(t, EndBefore(t, p), p)) IN
  IF p \in Ends(t) /\ s # <<>> THEN <<s>> ELSE <<>>

Statements(t) == FlattenSeq([p \in 1..(Len(t) + 1) |-> StatementAt(t, p)])

-----------------------------------------------------------------------------
(* What the scan is not meant for, or known to read differently (README):  *)
(* a dollar that opens no dollar quote, and a comment within a comment.    *)
PlainDollars(t) == \A p \in Starts(t) : t[p] = "$" => ClosedTagsAt(t, p) # {}

FlatComments(t) ==
  \A p \in Comments(t) : Stands(t, p, <<"/", "*">>) =>
    Places(SubSeq(t, 1, ElementEnd(t, p)), <<"/", "*">>, p + 1) = {}

Scannable(t) == PlainDollars(t) /\ FlatComments(t)

(* A text PostgreSQL accepts has all its strings and comments closed.      *)
Closed(t) ==
  \A p \in Starts(t) :
    /\ Stands(t, p, <<"'">>) => Places(t, <<"'">>, p + 1) # {}
    /\ Stands(t, p, <<"/", "*">>) => Places(t, <<"*", "/">>, p + 2) # {}

(* A comment is removed without a trace; what it separates stays separate  *)
(* only if there is a blank or a semicolon too.                            *)
Separated(t) ==
  \A p \in Comments(t) :
    \/ p = 1 \/ ElementEnd(t, p) = Len(t)
    \/ t[p - 1] \in Blank \cup {"semi"}
    \/ t[ElementEnd(t, p) + 1] \in Blank \cup {"semi"}

(* splitter.go: Split "handles single-quoted strings, dollar-quoted        *)
(* strings, line comments, and block comments": a semicolon within one     *)
(* ends no statement, every other one does, and nothing but comments and   *)
(* the blanks around a statement is lost.                                  *)
SplitsAtSemicolons ==
  round = 1 /\ st = "done" /\ Scannable(file) => stmts = Statements(file)

(* Statements that are written verbatim, as views and functions are, come  *)
(* back as they were when the output is scanned again.                     *)
SplitStable ==
  round = 2 /\ st = "done" /\ Scannable(file) /\ Closed(file) /\ Separated(file)
    => stmts = Statements(file)
=============================================================================
