---------------------------- MODULE MCFindLoader ----------------------------
(* Authors with books (soft-deletable) with reviews, tags, a favourite book  *)
(* and an image; comments of authors or books.                               *)
EXTENDS FindLoader, TLC

Primitive == [kind |-> "primitive"]
Reference(other, column, required) ==
  [kind |-> "m2o", other |-> other, column |-> column, required |-> required]
Many(other, column) == [kind |-> "o2m", other |-> other, column |-> column]
ManyMany(column, other, otherColumn) ==
  [kind |-> "m2m", other |-> other, joinTable |-> "authors_to_tags", column |-> column,
   otherColumn |-> otherColumn]

MCSchema ==
  [authors |-> [id |-> Primitive, firstName |-> Primitive,
                favoriteBook |-> Reference("books", "favoriteBook", FALSE),
                books |-> Many("books", "author"), tags |-> ManyMany("author", "tags", "tag"),
                image |-> [kind |-> "o2o", other |-> "images", column |-> "author"]],
   books |-> [id |-> Primitive, title |-> Primitive, author |-> Reference("authors", "author", TRUE),
              reviews |-> Many("reviews", "book")],
   reviews |-> [id |-> Primitive, rating |-> Primitive, book |-> Reference("books", "book", TRUE)],
   tags |-> [id |-> Primitive, name |-> Primitive, authors |-> ManyMany("tag", "authors", "author")],
   images |-> [id |-> Primitive, file |-> Primitive, author |-> Reference("authors", "author", TRUE)],
   comments |-> [id |-> Primitive,
                 parent |-> [kind |-> "poly",
                             components |-> {[other |-> "authors", column |-> "parentAuthor"],
                                             [other |-> "books", column |-> "parentBook"]}]]]

Author(id, name, book) == [id |-> id, firstName |-> name, favoriteBook |-> book]
Book(id, title, author, deletedAt) ==
  [id |-> id, title |-> title, author |-> author, deletedAt |-> deletedAt]
Review(id, rating, book) == [id |-> id, rating |-> rating, book |-> book]
Comment(id, author, book) == [id |-> id, parentAuthor |-> author, parentBook |-> book]

\* The second author has only a soft-deleted book, the third none.
MCDatabase(first, reviewed) ==
  [authors |-> {Author(1, 1, 1), Author(2, 2, first), Author(3, Null, Null)},
   books |-> {Book(1, 1, 1, Null), Book(2, 2, 1, Null), Book(3, 1, 2, 1)},
   reviews |-> {Review(1, 1, 1), Review(2, 2, 1), Review(3, 1, reviewed)},
   tags |-> {[id |-> 1, name |-> 1], [id |-> 2, name |-> 2]},
   authors_to_tags |-> {[id |-> 1, author |-> 1, tag |-> 1], [id |-> 2, author |-> 1, tag |-> 2],
                        [id |-> 3, author |-> 2, tag |-> 2]},
   images |-> {[id |-> 1, file |-> 1, author |-> 2]},
   comments |-> {Comment(1, 1, Null), Comment(2, Null, 1), Comment(3, Null, Null), Comment(4, 2, Null)}]
MCDatabases == {MCDatabase(Null, 2), MCDatabase(2, 3)}

\* Another manager renames the first author and the first book.
MCChanges(db) ==
  {[db EXCEPT !.authors = (@ \ {a}) \union {[a EXCEPT !.firstName = 2]},
              !.books = (@ \ {b}) \union {[b EXCEPT !.title = 2]}]
   : a \in {a \in db.authors : a.id = 1}, b \in {b \in db.books : b.id = 1}}

\* Filters, as their callers write them.
Undefined == [form |-> "undefined"]
Nothing == [form |-> "null"]
Is(v) == [form |-> "value", value |-> v]
OneOf(s) == [form |-> "values", values |-> s]
Not(f) == [form |-> "ne", of |-> f]
IdIs(f) == [form |-> "id", of |-> f]
Op(op, v) == [op |-> op, value |-> Is(v)]
Ops(ops) == [form |-> "ops", ops |-> ops]
As(name) == [form |-> "alias", as |-> name]
With(name, fields) == [form |-> "fields", as |-> name, fields |-> fields]
Where(fields) == With("", fields)
Saved(table, id) == [form |-> "value", value |-> id, table |-> table]

Conditions(op, conditions) == [kind |-> "exp", op |-> op, conditions |-> conditions, prune |-> "any"]
On(name, column, cond) == Leaf(name, column, cond, FALSE)

Plain(table, where) ==
  [table |-> table, where |-> where, conditions |-> None, orderBy |-> <<>>, softDeletes |-> "unset",
   allowMultipleLeftJoins |-> FALSE, optimizeJoinsToExists |-> TRUE]
\* Conditions on aliases, with what is soft-deleted.
Complex(where, conditions) ==
  [Plain("authors", where) EXCEPT !.conditions = conditions, !.softDeletes = "include"]

Fragment(name, where, conditions) ==
  [op |-> "fragment", fragment |-> [as |-> name, where |-> where, conditions |-> conditions]]
Ref(name) == [op |-> "ref", name |-> name]
Scope(ops) == [form |-> "scope", ops |-> ops]
\* Two scopes that refer to each other, and one with settings.
MCNamedScopes ==
  [named |-> <<Fragment("a", Where(<<>>), Conditions("and", <<On("a", "firstName", NotNull)>>)), Ref("tagged")>>,
   tagged |-> <<Fragment("", Where(<<<<"tags", Where(<<<<"name", Is(2)>>>>)>>>>), None), Ref("named")>>,
   withDeleted |-> <<[op |-> "softDeletes", value |-> "include"],
                     [op |-> "orderBy", path |-> <<"firstName">>]>>,
   first |-> <<Fragment("b", Where(<<>>), Conditions("or", <<On("b", "title", Eq(1)), On("b", "id", Eq(2))>>))>>]

TitleOrName(v) == Conditions("or", <<On("a", "firstName", Eq(v)), On("b", "title", Eq(v))>>)
AuthorBook == With("a", <<<<"books", As("b")>>>>)

Each(finds(_), values) == [i \in DOMAIN values |-> finds(values[i])]

InlineFinds ==
  Each(LAMBDA v : Plain("authors", Where(<<<<"firstName", Is(v)>>>>)), <<1, 2>>)
  \o Each(LAMBDA v : Plain("authors", Where(<<<<"books", Where(<<<<"title", Is(v)>>>>)>>>>)), <<1, 2>>)
  \o Each(LAMBDA v : Plain("authors", Where(<<<<"firstName", Is(1)>>,
             <<"books", Where(<<<<"reviews", Where(<<<<"rating", Ops(<<Op("gte", v), Op("lte", 2)>>)>>>>)>>>>)>>>>)),
           <<1, 2>>)
  \o Each(LAMBDA f : Plain("authors", f), <<
    Where(<<<<"firstName", OneOf({1, Null})>>>>),
    Where(<<<<"books", Where(<<<<"reviews", Where(<<<<"id", Nothing>>>>)>>>>)>>>>),
    Where(<<<<"books", Where(<<<<"title", Undefined>>>>)>>>>),
    Where(<<<<"favoriteBook", Where(<<<<"title", Nothing>>>>)>>>>),
    Where(<<<<"favoriteBook", Where(<<<<"reviews", Where(<<<<"rating", Is(2)>>>>)>>>>)>>>>),
    Where(<<<<"favoriteBook", Not(Nothing)>>, <<"image", Where(<<<<"file", Is(1)>>>>)>>>>),
    Where(<<<<"favoriteBook", [form |-> "new"]>>>>),
    Where(<<<<"tags", Where(<<<<"name", Is(2)>>>>)>>>>),
    Where(<<<<"tags", Is(1)>>>>),
    Where(<<<<"tags", Where(<<<<"id", Nothing>>>>)>>>>),
    Where(<<<<"or", <<Where(<<<<"firstName", Is(2)>>>>),
                      Where(<<<<"books", Where(<<<<"title", Is(1)>>>>)>>>>)>>>>>>),
    Where(<<<<"or", <<Where(<<<<"firstName", Is(2)>>>>),
                      Where(<<<<"favoriteBook", Where(<<<<"author", Where(<<<<"firstName", Is(1)>>>>)>>>>)>>>>)>>>>>>)>>)
  \o Each(LAMBDA f : Plain("books", f), <<
    Where(<<<<"author", Where(<<<<"firstName", Is(1)>>>>)>>>>),
    Where(<<<<"author", IdIs(Is(1))>>, <<"reviews", Where(<<<<"rating", Is(1)>>>>)>>>>)>>)
  \o Each(LAMBDA f : Plain("comments", f), <<
    Where(<<<<"parent", Saved("books", 1)>>>>), Where(<<<<"parent", Nothing>>>>),
    Where(<<<<"parent", Not(Nothing)>>>>),
    Where(<<<<"parent", [form |-> "values", tables |-> [authors |-> {1}, books |-> {1}],
                         values |-> {1}]>>>>),
    Where(<<>>)>>)
  \o Each(LAMBDA f : Plain("authors", f), <<
    Scope(<<Ref("named")>>),
    Scope(<<Ref("withDeleted"), Ref("tagged"),
            Fragment("", Where(<<<<"books", Scope(<<Ref("first")>>)>>>>), None)>>)>>)
  \o <<[Plain("authors", Where(<<>>)) EXCEPT !.orderBy = <<<<"favoriteBook", "title">>>>]>>

AliasFinds ==
  Each(LAMBDA v : Complex(AuthorBook, TitleOrName(v)), <<1, 2>>)
  \o <<
    Complex(With("a", <<<<"books", As("b")>>, <<"tags", As("t")>>>>),
            Conditions("or", <<On("b", "title", Eq(1)), On("t", "name", Eq(2))>>)),
    Complex(With("a", <<<<"books", As("b")>>, <<"tags", As("t")>>>>),
            Conditions("and", <<On("b", "title", Eq(1)),
                                Conditions("or", <<On("b", "id", Eq(2)), On("t", "name", Eq(3))>>)>>)),
    Complex(With("a", <<<<"books", As("b")>>>>),
            Conditions("and", <<Raw({"a", "b"}, Col("a", "firstName"), "eq", <<Col("b", "title")>>, FALSE)>>)),
    Complex(With("a", <<<<"books", Where(<<<<"id", Nothing>>>>)>>>>), None),
    Complex(With("a", <<<<"books", As("b")>>>>),
            Conditions("or", <<On("b", "id", IsNull), On("b", "title", Eq(2))>>))>>

MCFinds == InlineFinds \o AliasFinds
MCDeletable == {<<"authors", 3>>}

\* Queries of different structures share no loader: two of them add nothing to one.
OneStructure == \A i, j \in DOMAIN entries : entries[i].key.batch = entries[j].key.batch

\* The complex conditions of AliasFinds without what is soft-deleted.
MCLiveFinds == <<[Complex(AuthorBook, TitleOrName(1)) EXCEPT !.softDeletes = "unset"]>>

Callers2 == Permutations(Callers)
=============================================================================
