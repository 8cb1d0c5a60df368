------------------------------ MODULE MCPopulate ------------------------------
EXTENDS Populate
CONSTANTS a1, a2, a3, a4, b1, b2, i1

R(kind, other, reverse) == [kind |-> kind, other |-> other, reverse |-> reverse, hint |-> {}]
Prop(hint) == [kind |-> "property", other |-> "", reverse |-> "", hint |-> hint]
EntityC == {a1, a2, a3, a4, b1, b2, i1}
TypeOfC == [e \in EntityC |-> IF e \in {b1, b2} THEN "Book" ELSE IF e = i1 THEN "Image" ELSE "Author"]
MetaC ==
  "Author" :> ("mentor" :> R("m2o", "Author", "mentees") @@ "mentees" :> R("o2m", "Author", "mentor")
               @@ "books" :> R("o2m", "Book", "author") @@ "image" :> R("o2o", "Image", "artist")
               @@ "P" :> Prop({<<"books">>}) @@ "Q" :> Prop({<<"P">>}))
  @@ "Book" :> ("author" :> R("m2o", "Author", "books"))
  @@ "Image" :> ("artist" :> R("m2o", "Author", "image"))
RowsC ==
  <<a1, "mentor">> :> None @@ <<a2, "mentor">> :> a1 @@ <<a3, "mentor">> :> a2 @@ <<a4, "mentor">> :> None
  @@ <<b1, "author">> :> a1 @@ <<b2, "author">> :> a2 @@ <<i1, "artist">> :> a1

Req(op, start, list, path, hint) == [op |-> op, start |-> start, list |-> list, path |-> path, hint |-> hint]
Populates(start, hint) == Req("populate", start, TRUE, <<>>, hint)
MentorBooks == {<<"mentor">>, <<"mentor", "books">>}
RequestC ==
  {Populates({a3}, MentorBooks),
   Populates({a3}, {<<"P">>, <<"Q">>}),
   Populates({a2}, {<<"mentor">>, <<"mentor", "mentor">>, <<"image">>}),
   Req("load", {a1}, FALSE, <<>>, {<<"mentees">>}),
   Req("lens", {a3}, FALSE, <<"mentor", "books">>, {}),
   Req("sqlLens", {a2}, FALSE, <<"mentees", "books">>, {}),
   Req("up", {a4}, FALSE, <<"mentor">>, {}),
   Req("down", {a2}, FALSE, <<"mentees">>, {})}
SetsC == {<<<<a4, "mentor">>, a3>>, <<<<b1, "author">>, a4>>}
InMemoryC == {a2, a3, a4, b1}
SoftDeletedC == {b2}
=============================================================================
