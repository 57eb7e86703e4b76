---------------------------- MODULE ChunkyParser ----------------------------
(***************************************************************************)
(* client/chunky_parser.py and the test of work_loop.py that the task of a *)
(* region is complete: what the texts of Chunky's progress say once        *)
(* parsed.  The total is in the text, or follows from a percentage that    *)
(* Chunky rounded to two decimals, or is taken to be 1024, the chunks of   *)
(* a region; and more than 1024 are never waited for.  A task is as large  *)
(* as Chunky makes it: of 1024 chunks for a square on a region's corners,  *)
(* of another number for the other shapes that can be configured.          *)
(***************************************************************************)
EXTENDS Naturals

CONSTANT Sizes  \* the chunks the task of a region may have

ASSUME SizesAssumption == Sizes \subseteq Nat \ {0}

VARIABLES
    shown,  \* chunks of the task Chunky has generated
    size    \* chunks it has

parserVars == <<shown, size>>

ParserInit == size \in Sizes /\ shown = 0

\* Chunky goes on; the client may ask at any moment.
ParserNext == shown < size /\ shown' = shown + 1 /\ UNCHANGED size

ParserSpec == ParserInit /\ [][ParserNext]_parserVars

-----------------------------------------------------------------------------
(* Texts and what they are parsed to *)

Cap == 1024

Smaller(a, b) == IF a < b THEN a ELSE b

\* (12.50%) as 1250
Percent(d) == (20000 * d + size) \div (2 * size)

\* int(done / (pct / 100)): in floating point a whole quotient may come out as
\* slightly less, but not that by 1.0.
Quotients(d, p) ==
    LET q == (d * 10000) \div p
    IN  IF q * p = d * 10000 /\ p # 10000 THEN {q - 1, q} ELSE {q}

\* info["total"] for "Processing d/n chunks", "Processed: d chunks (p%)",
\* "d chunks"
Totals(form, d) ==
    CASE form = "of total" -> {size}
      [] form = "percent" /\ d > 0 /\ Percent(d) > 0 ->
            {Smaller(q, Cap) : q \in Quotients(d, Percent(d))}
      [] OTHER -> {Cap}

Says_Uncut(done, total) == done > 0 /\ done >= total /\ total > 0

Says(done, total) == done > 0 /\ done >= Smaller(total, Cap) /\ Smaller(total, Cap) > 0

-----------------------------------------------------------------------------
(* Properties *)

\* The three forms a text with a count may have.
Forms == {"of total", "percent", "bare"}

\* What the loop means to wait for.
Needed(form) == IF form = "bare" THEN Cap ELSE Smaller(size, Cap)

\* One chunk is missing, and the percentage does not show it.
LastHidden == shown = size - 1 /\ Percent(shown) * size >= 10000 * shown

\* Whatever the form of the text, the loop takes the task for complete when all
\* its chunks are generated, or 1024 of them: not later, and not earlier but for
\* one case, a percentage that rounds up, or is exact, with the last chunk of a
\* smaller task missing.  A text without a total tells it of 1024 chunks only.
VerdictIsExact ==
    \A form \in Forms : \A t \in Totals(form, shown) :
        /\ shown >= Needed(form) => Says(shown, t)
        /\ Says(shown, t) => shown >= Needed(form) \/ (form = "percent" /\ LastHidden)

=============================================================================
