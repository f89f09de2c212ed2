------------------------- MODULE MCCacheCoherence -------------------------
(* A listing, its collection and the offers of its SKU, and a seller whose *)
(* ID begins like the first one's.                                         *)
EXTENDS CacheCoherence, TLC

Collection == <<"listings", "v1", "items", "S">>
Listing == Append(Collection, "sku")
OtherSeller == <<"listings", "v1", "items", "S2", "sku">>

Key(m, kind, path) == [merchant |-> m, kind |-> kind, path |-> path]

MCKeys ==
  {Key("m1", "GET", p) : p \in {Collection, Listing, OtherSeller}}
    \cup {Key("m1", "BATCH", <<"listingOffers", s>>) : s \in {"sku", "sku2"}}

MCReads ==
  {<<Key("m1", "GET", p)>> : p \in {Collection, Listing, OtherSeller}}
    \cup {[i \in 1 .. 2 |-> Key("m1", "BATCH", <<"listingOffers", <<"sku2", "sku">>[i]>>)],
          <<None, Key("m1", "BATCH", <<"listingOffers", "sku">>)>>}

MCWrites ==
  {[merchant |-> "m1", method |-> "PUT", path |-> Listing],
   [merchant |-> "m1", method |-> "DELETE", path |-> Listing]}

MCBegins == {<<"S", "S2">>}

Symmetry == Permutations(Requests)
=============================================================================
