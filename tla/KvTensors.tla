------------------------------ MODULE KvTensors -------------------------------
(***************************************************************************)
(* The KV caches of flux/engine/kv_utils.py and flux/engine/batching.py,   *)
(* and the forward pass of the model that reads and extends them.          *)
(*                                                                         *)
(* A cache is a sequence of cells, one per position.  The keys and values  *)
(* of a position depend on the token there and on all tokens attended      *)
(* before it: a cell is the text it encodes.  Nothing is the cell of the   *)
(* zero padding, and of a position computed from anything but the          *)
(* beginning of one text at its own position.  Layers and heads repeat     *)
(* this and are left out.  The logits a forward pass returns are those     *)
(* after the text of its last cell, and are represented by it.             *)
(***************************************************************************)
EXTENDS Integers, FiniteSets, SequencesExt, FiniteSetsExt

Nothing == << >>

(* The cells of a cache that holds exactly text.                           *)
CellsOf(text) == [i \in 1 .. Len(text) |-> SubSeq(text, 1, i)]

(* The model: a row of cells, those of them the new token attends to, its  *)
(* position id, and the token.  With rotary positions the order of the     *)
(* cells is no matter, their number and their positions are.               *)
NewCell(row, attended, position, token) ==
    LET seen  == {row[i] : i \in attended}
        texts == {t \in seen \cup {<< >>} :
                    /\ Len(t) = position /\ Cardinality(attended) = position
                    /\ seen = {SubSeq(t, 1, n) : n \in 1 .. position}}
    IN  IF texts = {} THEN Nothing ELSE Append(CHOOSE t \in texts : TRUE, token)

(* A forward pass of several tokens with nothing masked, from position     *)
(* start on: row[i] is the cache after the first i of them.                *)
Forward(past, start, tokens) ==
    LET row[i \in 0 .. Len(tokens)] ==
            IF i = 0 THEN past
            ELSE Append(row[i - 1],
                        NewCell(row[i - 1], DOMAIN row[i - 1], start + i - 1, tokens[i]))
    IN  row[Len(tokens)]

(* slice_cache: the first n positions, copied.                             *)
SliceCache(cells, n) == SubSeq(cells, 1, n)

(* stack_caches: every row is padded on its right to the longest.          *)
MaxPast(caches) == Max({Len(caches[s]) : s \in DOMAIN caches})

StackCaches(caches) ==
    [s \in DOMAIN caches |->
        [i \in 1 .. MaxPast(caches) |->
            IF i <= Len(caches[s]) THEN caches[s][i] ELSE Nothing]]

(* Mutant: the padding is attended to, too.                                *)
AttendedUnmasked(oldLen, maxPast) == 1 .. maxPast

(* attention_mask_for_decode: of the past, the row's own positions.  The   *)
(* new token, at the end of the row, always attends to itself.             *)
Attended(oldLen, maxPast) == 1 .. oldLen

(* extract_row_cache: the old positions, and the new one from the end.     *)
ExtractRow(row, oldLen) == Append(SubSeq(row, 1, oldLen), Last(row))
=============================================================================
