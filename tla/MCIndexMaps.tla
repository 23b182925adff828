---------------------------- MODULE MCIndexMaps ----------------------------
(* Small containers of one, two and three dimensions on teams of up to six. *)
EXTENDS IndexMaps

none == [type |-> "none", blocksz |-> 0]
blocked == [type |-> "blocked", blocksz |-> 0]
cyclic == [type |-> "cyclic", blocksz |-> 0]
blockcyclic(n) == [type |-> "blockcyclic", blocksz |-> n]
tile(n) == [type |-> "tile", blocksz |-> n]

OneDim == {none, blocked, cyclic, blockcyclic(2), tile(2), tile(3)}

MCShapes == {<<1>>, <<7>>, <<4, 4>>, <<5, 3>>, <<2, 3, 4>>}
MCDists ==
    {<<d>> : d \in OneDim} \cup {<<d, e>> : d, e \in OneDim \ {tile(3)}}
        \cup {<<tile(2), none, tile(2)>>, <<blocked, cyclic, tile(2)>>}
MCTeams == {1, 2, 4, 6}
MCOffsets == {-1, 0, 1}
MCSizes == {<<3>>, <<2, 0, 3>>, <<0, 4, 1>>, L!csr_local_sizes(6, "blocked", 3),
            L!csr_local_sizes(5, "none", 3), L!load_balance_sizes(7, <<1, 3, 2>>)}
=============================================================================
