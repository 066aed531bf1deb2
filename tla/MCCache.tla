------------------------------- MODULE MCCache -------------------------------
EXTENDS Cache

MCLineOf == [addr \in Addr |-> CASE addr = "k" -> "K" [] addr = "a" -> "A" [] addr = "b" -> "B"]
MCSetOf == [c \in CacheName |-> [l \in Line |-> 0]]

\* One way and one entry of everything, but two of each in L2C.
MCSize == [c \in CacheName |-> IF c = L2C THEN 2 ELSE 1]
MCOne == [c \in CacheName |-> 1]

\* The prefetchers of the build the README uses: none for L1I, next_line
\* for L1D, and spp_dev, which fills L2C or the level below it.
MCPrefetchOf == [c \in CacheName |->
    CASE c = L1I -> {}
      [] c = L1D -> {<<"b", FILL_L1>>}
      [] c = L2C -> {<<"b", FILL_L2>>, <<"b", FILL_LLC>>}]

\* A page of code, which va_to_pa may give away.
MCSwap == {{"K"}}

\* A line of code next to data: next_line brings it into L1D.
MCPrefetchCode == [c \in CacheName |-> IF c = L1D THEN {<<"k", FILL_L1>>} ELSE {}]
=============================================================================
