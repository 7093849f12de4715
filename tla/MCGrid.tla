------------------------------- MODULE MCGrid -------------------------------
(* Boards of Rows by Columns for the instances: the points are numbered row *)
(* by row from 1 as the source's vertices are.                             *)
EXTENDS Naturals, FiniteSets, Sequences, SequencesExt

CONSTANTS Rows, Columns

Grid == 1 .. Rows * Columns
Row(p) == (p - 1) \div Columns
Column(p) == (p - 1) % Columns
At(row, column) == row * Columns + column + 1
Near(p, q) == (Row(p) = Row(q) /\ (p = q + 1 \/ q = p + 1)) \/ q = p + Columns \/ p = q + Columns
GridNeighbors == [p \in Grid |-> {q \in Grid : Near(p, q)}]
GridBeside == [p \in Grid |-> {q \in Grid : Near(p, q) /\ Row(q) = Row(p)}]
GridAround == [p \in Grid |->
    SelectSeq(<<p + Columns, p - 1, p - Columns, p + 1>>, LAMBDA q : q \in GridNeighbors[p])]
GridDiagonal == [p \in Grid |->
    {q \in Grid : Row(p) \in {Row(q) - 1, Row(q) + 1} /\ Column(p) \in {Column(q) - 1, Column(q) + 1}}]
GridOrder == [p \in Grid |-> p]

Drawn(black, white) ==
    [p \in Grid |-> IF p \in black THEN "black" ELSE IF p \in white THEN "white" ELSE "empty"]

Exchanged(b) ==
    [p \in Grid |-> IF b[p] = "black" THEN "white" ELSE IF b[p] = "white" THEN "black" ELSE "empty"]

(* The boards with at most so many empty points, up to the exchange of the *)
(* colors, and up to the symmetries of the grid as well: each is the first *)
(* of its likes when read as a number to the base 3.                       *)
BoardsUpToColor(most) ==
    {b \in [Grid -> {"black", "white", "empty"}] :
        /\ Cardinality({p \in Grid : b[p] = "empty"}) <= most
        /\ \A p \in Grid : b[p] = "white" => \E q \in 1 .. p : b[q] = "black"}

Mirrors == {[p \in Grid |-> At(IF flip THEN Rows - 1 - Row(p) ELSE Row(p),
                               IF flop THEN Columns - 1 - Column(p) ELSE Column(p))] :
               flip \in BOOLEAN, flop \in BOOLEAN}
Turns == {[p \in Grid |-> p]}
         \cup (IF Rows = Columns THEN {[p \in Grid |-> At(Column(p), Row(p))]} ELSE {})
Number(b) == FoldLeft(LAMBDA n, c : 3 * n + (IF c = "empty" THEN 0 ELSE IF c = "black" THEN 1 ELSE 2), 0, b)

BoardsBySymmetry(most) ==
    {b \in BoardsUpToColor(most) : \A turn \in Turns, mirror \in Mirrors :
        LET image == [p \in Grid |-> b[turn[mirror[p]]]]
        IN Number(b) <= Number(image) /\ Number(b) <= Number(Exchanged(image))}
=============================================================================
