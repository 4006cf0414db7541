------------------------------ MODULE MCImages ------------------------------
(* A small instance of Images for TLC. *)
EXTENDS Images

CONSTANTS web, db, key, net, postgres

Of(name, image, build, secrets, networks) ==
    [name |-> name, image |-> image, build |-> build, secrets |-> secrets,
     networks |-> networks]

Apply(ref, url, services, networks) ==
    [id |-> TRUE, slug |-> "app", ref |-> ref, url |-> url, services |-> services,
     networks |-> networks]

Source == Of(web, NoImage, TRUE, {key}, {})
Store  == Of(db, postgres, FALSE, {}, {})
Taken  == Of(db, <<"app", web, "main">>, FALSE, {}, {})
Neither == Of(web, NoImage, FALSE, {}, {})

\* Two services, of which the second names the reference that the first is built under; one
\* that is pulled; one service twice, of which the second is built, from
\* another ref; and what fails: no source, a network, neither image nor build, no services,
\* no ID.
AllPayloads ==
    {Apply("main", TRUE, <<Source, Taken>>, {}),
     Apply("main", TRUE, <<Store>>, {}),
     Apply("local", TRUE, <<Of(web, postgres, FALSE, {key}, {}), Source>>, {}),
     Apply("local", FALSE, <<Source>>, {}),
     Apply("main", TRUE, <<Of(web, postgres, FALSE, {}, {net})>>, {net}),
     Apply("main", TRUE, <<Neither>>, {}),
     Apply("main", TRUE, << >>, {}),
     [Apply("main", TRUE, <<Source>>, {}) EXCEPT !.id = FALSE]}

\* References by slug, service and ref, and one from elsewhere.
AllReferences == Slugs \X Names \X Refs \cup {postgres}

AllBuildTags == [t \in Slugs \X Names \X Refs |-> t]

\* At the limit, and one byte more.
AllArchives == {<<1, 2>>, <<2, 2>>}

=============================================================================
