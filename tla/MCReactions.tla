---------------------------- MODULE MCReactions -----------------------------
(***************************************************************************)
(* Two worlds.  In the first, two authors and two books: Author.titles     *)
(* depends on { books: title }, Book.shelf on { author: titles }, and a    *)
(* reactive query counts books.  In the second, three writers in a tree of *)
(* mentors and an essay whose writer is immutable: Writer.line depends on  *)
(* { mentorsRecursive: name }, Writer.team on { menteesRecursive: rank },  *)
(* Essay.label on { writer: { mentor: line } }, a reaction on { name }     *)
(* sets the rank, and another one runs once; its flushes fail in their     *)
(* validation and are repeated.                                            *)
(***************************************************************************)
EXTENDS Reactions

CONSTANTS a1, a2, b1, b2, w1, w2, w3, e1

Primitives == [Author |-> {"name", "titles", "count"}, Book |-> {"title", "shelf"},
               Writer |-> {"called", "rank", "line", "team"}, Essay |-> {"label"}]
\* Relations: type, key, kind, the other type and its key.
Relations ==
  {<<"Author", "books", "o2m", "Book", "author">>, <<"Book", "author", "m2o", "Author", "books">>,
   <<"Writer", "mentor", "m2o", "Writer", "mentees">>, <<"Writer", "mentees", "o2m", "Writer", "mentor">>,
   <<"Writer", "mentorsRecursive", "parents", "Writer", "menteesRecursive">>,
   <<"Writer", "menteesRecursive", "children", "Writer", "mentorsRecursive">>,
   <<"Writer", "essays", "o2m", "Essay", "writer">>, <<"Essay", "writer", "m2o", "Writer", "essays">>}
Column(r) == [kind |-> r[3], other |-> r[4], reverse |-> r[5], fk |-> "mentor", immutable |-> r[2] = "writer"]
MCMeta ==
  [t \in DOMAIN Primitives |->
     [k \in Primitives[t] \cup {r[2] : r \in {q \in Relations : q[1] = t}} |->
        IF k \in Primitives[t] THEN Column(<<t, k, "primitive", "", "">>)
        ELSE Column(CHOOSE r \in Relations : r[1] = t /\ r[2] = k)]]

Step(key) == [key |-> key, ro |-> FALSE]
Hint(keys) == {<<Step(keys[1])>>, <<Step(keys[1]), Step(keys[2])>>}
BookTitles == Hint(<<"books", "title">>)
AuthorTitles == Hint(<<"author", "titles">>)
BookAuthors == {<<Step("books")>>}
Mentors == Hint(<<"mentorsRecursive", "called">>)
Mentees == Hint(<<"menteesRecursive", "rank">>)
MentorLine == Hint(<<"writer", "mentor">>) \cup {<<Step("writer"), Step("mentor"), Step("line")>>}
Define(kind, name, cstr, hint, runOnce) ==
  [kind |-> kind, name |-> name, cstr |-> cstr, hint |-> hint, runOnce |-> runOnce]

MCDefinitions ==
  {Define("populate", "titles", "Author", BookTitles, FALSE),
   Define("populate", "shelf", "Book", AuthorTitles, FALSE),
   Define("query", "count", "Author", BookAuthors, FALSE),
   Define("reaction", "onTitle", "Book", {<<Step("title")>>}, TRUE),
   Define("populate", "line", "Writer", Mentors, FALSE),
   Define("populate", "team", "Writer", Mentees, FALSE),
   Define("populate", "label", "Essay", MentorLine, FALSE),
   Define("reaction", "promoted", "Writer", {<<Step("called")>>}, FALSE),
   Define("reaction", "renamed", "Writer", {<<Step("called")>>}, TRUE)}
MCReactionSets == [promoted |-> [field |-> "rank", value |-> "y"]]

MCTypeOf ==
  [e \in {a1, a2, b1, b2, w1, w2, w3, e1} |->
     CASE e \in {a1, a2} -> "Author" [] e \in {b1, b2} -> "Book" [] e = e1 -> "Essay" [] OTHER -> "Writer"]
MCValues(f) == CASE f = "called" -> {"x", "y"} [] OTHER -> {"x", Unset}
One(h, v) == [q \in {p \in h : Len(p) = 2} |-> v]
Shelves ==
  (a1 :> [name |-> "x", titles |-> One(BookTitles, {"x"}), count |-> [q \in BookAuthors |-> {b1}]])
  @@ (a2 :> [name |-> "x", titles |-> One(BookTitles, {}), count |-> [q \in BookAuthors |-> {}]])
  @@ (b1 :> [title |-> "x", author |-> a1, shelf |-> One(AuthorTitles, {One(BookTitles, {"x"})})])
Tree ==
  LET writer(mentor, line, team) ==
        [called |-> "x", rank |-> "x", mentor |-> mentor, line |-> One(Mentors, line), team |-> One(Mentees, team)]
  IN (w1 :> writer(Unset, {}, {"x"})) @@ (w2 :> writer(w1, {"x"}, {"x"})) @@ (w3 :> writer(w2, {"x"}, {}))
MCWorlds ==
  {[entities |-> {a1, a2, b1, b2}, defined |-> {"titles", "shelf", "count", "onTitle"}, stored |-> Shelves,
    creatable |-> {b2}, deletable |-> {b1, b2}, failAt |-> {"action"}, retries |-> FALSE, edits |-> 3],
   [entities |-> {w1, w2, w3, e1}, defined |-> {"line", "team", "label", "promoted", "renamed"}, stored |-> Tree,
    creatable |-> {e1}, deletable |-> {w1, w2}, failAt |-> {"validate"}, retries |-> TRUE, edits |-> 2]}
=============================================================================
