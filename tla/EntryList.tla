----------------------------- MODULE EntryList -----------------------------
(***************************************************************************)
(* The lists of names the metadata servers keep for readdir, one list for  *)
(* each directory uuid (fs/EntryList.cpp).                                 *)
(***************************************************************************)
EXTENDS Integers, FiniteSets, Sequences, SequencesExt

NoEntries == <<>>

\* What a string holds after std::remove has moved it.
MovedFrom == ""

readdir(entry, uuid) == IF uuid \in DOMAIN entry THEN entry[uuid] ELSE NoEntries

insert_entry(entry, uuid, name) ==
    [u \in DOMAIN entry \cup {uuid} |->
        IF u = uuid THEN Append(readdir(entry, uuid), name) ELSE entry[u]]

\* Where the names other than name are, and which of them comes k-th.
OtherPlaces(list, name) == {i \in DOMAIN list : list[i] # name}
Nth(places, k) == CHOOSE i \in places : Cardinality({j \in places : j <= i}) = k

\* std::remove shifts the other names to the front; behind them it leaves the
\* copies of name it found there and the husks of what it moved away.
Shifted(list, name) ==
    [k \in DOMAIN list |->
        IF k <= Cardinality(OtherPlaces(list, name)) THEN list[Nth(OtherPlaces(list, name), k)]
        ELSE IF list[k] = name THEN name ELSE MovedFrom]

\* A slip: nothing is erased.
remove_entry_not(entry, uuid, name) == entry

\* erase with one iterator takes away one element, the first behind the others.
\* Of a list without name that would be end(): libstdc++ drops the last one.
remove_entry(entry, uuid, name) ==
    LET list   == readdir(entry, uuid)
        others == Cardinality(OtherPlaces(list, name))
        gone   == IF others < Len(list) THEN others + 1 ELSE others
    IN  IF list = NoEntries THEN entry
        ELSE [entry EXCEPT ![uuid] = RemoveAt(Shifted(list, name), gone)]
=============================================================================
