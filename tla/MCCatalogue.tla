------------------------------ MODULE MCCatalogue ------------------------------
(* Small instances of Catalogue for TLC.                                   *)
EXTENDS Catalogue

CONSTANTS alice, bob, carol

File(hash, name, size) == [hash |-> <<hash>>, name |-> name, size |-> size]

\* Names with each separator in them, one of them not tame and three lines by
\* itself, a blank before and within, the hash of another file for a name, one
\* name for two files, and four copies of one file: more than a vector has room for.
Lists == {<<>>,
          <<File("h1", <<"x">>, "1"), File("h2", <<"y">>, "2")>>,
          <<File("h2", <<"x">>, "2"), File("h2", <<"y">>, "2"),
            File("h2", <<"x", "x">>, "2"), File("h2", <<"y", "y">>, "2")>>,
          <<File("h1", <<"x", ";", "y">>, "1"), File("h3", <<"x", ":", "y">>, "3")>>,
          <<File("h1", <<"x", "\n", "y">>, "1"), File("h2", <<" ", "y">>, "2")>>,
          <<File("h1", <<"x", ";", "\n", "h1", ":", ";", "\n", "h1", ":", ";", "\n", "y">>, "1"),
            File("h3", <<"y">>, "3")>>,
          <<File("h3", <<"h1">>, "3"), File("h2", <<"y", " ", ",", "x">>, "2")>>}

\* No client is unlike another.
Symmetry == Permutations(Clients)

PlainLists == {<<File("h1", <<"x">>, "1")>>}
================================================================================
