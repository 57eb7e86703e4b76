----------------------------- MODULE TaskTable -----------------------------
(***************************************************************************)
(* How the tasks table comes to be: at each start the server fills it if   *)
(* it is empty (server/tasker.py, server/geometry.py, server/main.py), in  *)
(* several commits.  The process can die in between and the configuration  *)
(* can be edited while it is down.                                         *)
(***************************************************************************)
EXTENDS Integers, Sequences, SequencesExt, FiniteSets

CONSTANTS
    Radii,     \* values of config.radius, in chunks
    Shapes,    \* values of config.shape, as Str(...)
    PartSize   \* rows per commit (1000 in the code)

ASSUME TableAssumption ==
    /\ Radii \subseteq Nat \ {0}
    /\ \A sh \in Shapes : sh = <<"str", sh[2]>>
    /\ PartSize \in Nat \ {0}

VARIABLES
    radius,  \* config.radius
    shape,   \* config.shape
    table,   \* rows of the tasks table in insertion order
    todo,    \* what generate_spiral_order has still to add
    server,  \* "down", "filling" or "serving"
    source,  \* [radius, shape] the last fill was made from
    cut      \* whether a fill was cut short after a commit

tableVars == <<radius, shape, table, todo, server, source, cut>>

-----------------------------------------------------------------------------
(* geometry.py *)

\* A str and the member of the plain Enum that has its value are not equal.
Str(s)    == <<"str", s>>
Member(s) == <<"ChunkyShape", s>>

Sq(n) == n * n

IsInsideShape(cx, cz, sh, r) ==
    CASE sh = Member("square") -> TRUE
      [] sh = Member("circle") -> Sq(cx) + Sq(cz) <= Sq(r)
      [] sh \in {Member("diamond"), Member("triangle")} ->
            (IF cx < 0 THEN -cx ELSE cx) + (IF cz < 0 THEN -cz ELSE cz) <= r
      [] sh \in {Member("hexagon"), Member("pentagon"), Member("star")} ->
            Sq(cx) + Sq(cz) <= Sq(r)
      [] OTHER -> TRUE

\* The four sides of ring n.
Ring(n) ==
    {<<x, -n>> : x \in -n .. n} \cup {<<n, z>> : z \in -n+1 .. n}
        \cup {<<x, n>> : x \in -n .. n-1} \cup {<<-n, z>> : z \in -n+1 .. n-1}

\* atan2 orders the lower half plane, the positive x axis, the upper half plane
\* and the negative x axis, and within a half plane counterclockwise.
Sector(c) ==
    CASE c[2] < 0 -> 0
      [] c[2] = 0 /\ c[1] > 0 -> 1
      [] c[2] > 0 -> 2
      [] OTHER -> 3

SmallerAngle(c, d) ==
    \/ Sector(c) < Sector(d)
    \/ (Sector(c) = Sector(d) /\ c[1] * d[2] - c[2] * d[1] > 0)

\* The sort key of a ring: distance from the centre, then angle.
Before(c, d) ==
    LET near(p) == Sq(p[1]) + Sq(p[2])
    IN  near(c) < near(d) \/ (near(c) = near(d) /\ SmallerAngle(c, d))

\* coords.sort
Sorted(S) ==
    [i \in 1 .. Cardinality(S) |-> CHOOSE c \in S : Cardinality({d \in S : Before(d, c)}) = i - 1]

\* generate_spiral_order
Spiral[n \in Nat] ==
    IF n = 0 THEN <<<<0, 0>>>> ELSE Spiral[n-1] \o Sorted(Ring(n))

-----------------------------------------------------------------------------
(* fill_tasks_table *)

CeilDiv(a, b) == (a + b - 1) \div b

\* The rows a fill adds: in the order of the spiral, the regions whose first
\* chunk is inside the shape.
Rows(r, sh) ==
    LET order == Spiral[CeilDiv(r, 32)]
        kept  == {i \in DOMAIN order : IsInsideShape(order[i][1] * 32, order[i][2] * 32, sh, r)}
        Nth(k) == CHOOSE i \in kept : Cardinality({j \in kept : j < i}) = k - 1
    IN  [k \in 1 .. Cardinality(kept) |-> order[Nth(k)]]

TableInit ==
    /\ radius \in Radii
    /\ shape \in Shapes
    /\ table = <<>>
    /\ todo = <<>>
    /\ server = "down"
    /\ source = [radius |-> 0, shape |-> shape]
    /\ cut = FALSE

Populated_Never == FALSE

\* SELECT count(tasks.id) > 0
Populated == table # <<>>

Start ==
    /\ server = "down"
    /\ IF Populated
       THEN /\ server' = "serving"
            /\ UNCHANGED <<todo, source>>
       ELSE /\ server' = "filling"
            /\ todo' = Rows(radius, shape)
            /\ source' = [radius |-> radius, shape |-> shape]
    /\ UNCHANGED <<radius, shape, table, cut>>

LastPart_Dropped ==
    /\ Len(todo) < PartSize
    /\ UNCHANGED table

\* The rows left below a full part.
LastPart ==
    /\ Len(todo) < PartSize
    /\ table' = table \o todo

Commit_KeepsAdded ==
    /\ server = "filling"
    /\ \/ /\ Len(todo) >= PartSize
          /\ table' = table \o SubSeq(todo, 1, PartSize)
          /\ todo' = SubSeq(todo, PartSize + 1, Len(todo))
          /\ UNCHANGED server
       \/ /\ LastPart
          /\ server' = "serving"
          /\ UNCHANGED todo
    /\ UNCHANGED <<radius, shape, source, cut>>

\* A commit of a full part, or of what is left at the end.
Commit ==
    /\ server = "filling"
    /\ \/ /\ Len(todo) >= PartSize
          /\ table' = table \o SubSeq(todo, 1, PartSize)
          /\ todo' = SubSeq(todo, PartSize + 1, Len(todo))
          /\ UNCHANGED server
       \/ /\ LastPart
          /\ todo' = <<>>
          /\ server' = "serving"
    /\ UNCHANGED <<radius, shape, source, cut>>

\* The process dies, or is stopped; the committed rows stay.
ServerDies ==
    /\ server # "down"
    /\ server' = "down"
    /\ todo' = <<>>
    /\ cut' = (cut \/ (server = "filling" /\ Populated))
    /\ UNCHANGED <<radius, shape, table, source>>

\* The operator edits the configuration of a stopped server.
Reconfigure ==
    /\ server = "down"
    /\ \E r \in Radii, sh \in Shapes : radius' = r /\ shape' = sh
    /\ UNCHANGED <<table, todo, server, source, cut>>

TableNext == Start \/ Commit \/ ServerDies \/ Reconfigure

TableSpec == TableInit /\ [][TableNext]_tableVars

-----------------------------------------------------------------------------
(* Properties *)

\* Configuration, rows and the phase of the server have values they can have, and
\* rows wait to be added only while a fill runs.
TableTypeOK ==
    /\ radius \in Radii /\ shape \in Shapes
    /\ table \in Seq(Int \X Int) /\ todo \in Seq(Int \X Int)
    /\ server \in {"down", "filling", "serving"}
    /\ source \in [radius : Radii \cup {0}, shape : Shapes]
    /\ cut \in BOOLEAN
    /\ todo # <<>> => server = "filling"

\* Rings of the last fill.
Width == CeilDiv(source.radius, 32)

\* Committed rows, and those the fill has still to add, are the spiral of one
\* configuration, in order and without a repetition: neither a restart in the
\* middle of a fill nor an edited radius mixes two fills (the count that guards
\* fill_tasks_table).
TableIsOnePrefix ==
    source.radius # 0 =>
        /\ IsPrefix(table \o todo, Spiral[Width])
        /\ server = "filling" => Len(table \o todo) = Sq(2 * Width + 1)

\* A table that is served after fills that were never cut short has each region
\* of the square around the centre exactly once, corners included, whatever the
\* radius is a multiple of (the four loops of generate_spiral_order, the last
\* partial commit of fill_tasks_table).
TableIsComplete ==
    server = "serving" /\ ~cut =>
        /\ Range(table) = (-Width .. Width) \X (-Width .. Width)
        /\ Len(table) = Sq(2 * Width + 1)

-----------------------------------------------------------------------------
(* What the repository's texts say and the code does not do *)

\* is_inside_shape, "Check if a chunk coordinate (cx, cz) is inside the given
\* shape with radius": with the shape circle, the regions of the table start
\* within the radius.
TableHasShape ==
    \A i \in 1 .. Len(table) :
        source.shape = Str("circle") =>
            Sq(table[i][1] * 32) + Sq(table[i][2] * 32) <= Sq(source.radius)

=============================================================================
