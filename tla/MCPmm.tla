------------------------------- MODULE MCPmm -------------------------------
(***************************************************************************)
(* Small instances of Pmm: pages of 4 bytes, maps of 64 or 128 pages.      *)
(***************************************************************************)
EXTENDS Pmm

Entry(page, count, free) ==
    [base |-> page * PAGE_SIZE, length |-> count * PAGE_SIZE, is_free |-> free]

\* The bitmap of 8 bytes fills two pages of the second entry; usable memory
\* has a hole below the scan limit (page 8) and continues above it.
MapWithHole ==
    << Entry(0, 1, FALSE), Entry(1, 4, TRUE), Entry(5, 1, FALSE),
       Entry(6, 6, TRUE), Entry(12, 52, FALSE) >>

\* Page 0 is usable, the first free entry is too small for the bitmap, and
\* the bitmap (10 bytes) ends inside a page.
MapFromZero ==
    << Entry(0, 2, TRUE), Entry(2, 2, FALSE), Entry(4, 8, TRUE),
       Entry(12, 68, FALSE) >>

\* No entry can host the bitmap.
MapTooSmall ==
    << Entry(0, 2, TRUE), Entry(2, 1, FALSE), Entry(3, 1, TRUE),
       Entry(4, 60, FALSE) >>

\* All usable memory lies below the scan limit, so that usable_pages reaches
\* zero, or wraps below it, while pages are left.
MapLow == << Entry(0, 8, TRUE), Entry(8, 56, FALSE) >>

MCMemoryMaps == {MapLow, MapWithHole, MapFromZero, MapTooSmall}

MCAmounts == {0, 3, 4, 8}
=============================================================================
