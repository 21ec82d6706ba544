------------------------------ MODULE MemorySet ------------------------------
(***************************************************************************)
(* Page frames, page tables and address spaces: os/src/mm, as operators on   *)
(*   mm = [fa, mem, space]                                                  *)
(* where fa is FRAME_ALLOCATOR, mem what the kernel reads back from a frame   *)
(* (0, or the kernel_sp of the TrapContext in it, as a kernel stack id plus   *)
(* one), and space[o] the MemorySet of o: a process, the kernel, or one       *)
(* under construction.                                                     *)
(*                                                                         *)
(* A page table has two levels here (a root, and tables of TABLE_SZ          *)
(* entries) instead of three, and addresses are page numbers.              *)
(***************************************************************************)
EXTENDS Integers, Sequences, FiniteSetsExt

CONSTANTS TABLE_SZ, TRAMPOLINE, MEMORY_END

\* Vec: its last element, the others, and remove.
Last(s) == s[Len(s)]
Front(s) == SubSeq(s, 1, Len(s) - 1)
RemoveAt(s, i) == SubSeq(s, 1, i - 1) \o SubSeq(s, i + 1, Len(s))

\* A map with one more entry, or another one in its place.
With(f, x, block) == [y \in DOMAIN f \cup {x} |-> IF y = x THEN block ELSE f[y]]

-----------------------------------------------------------------------------
\* frame_allocator.rs.  When the frames run out alloc returns None and every
\* caller unwraps it: a panic, which the bounds of the instance exclude.

NextFrame(mm) ==
  IF mm.fa.recycled # <<>> THEN Last(mm.fa.recycled) ELSE mm.fa.current

\* frame_alloc, with the cleaning of the page by FrameTracker::new.
frame_alloc(mm) ==
  [mm EXCEPT !.fa = IF mm.fa.recycled # <<>>
                    THEN [mm.fa EXCEPT !.recycled = Front(@)]
                    ELSE [mm.fa EXCEPT !.current = @ + 1],
             !.mem = [@ EXCEPT ![NextFrame(mm)] = 0]]

\* The drop of FrameTrackers, in this order.  The check of dealloc is
\* FramesOwnedOnce.
frame_dealloc(mm, ppns) == [mm EXCEPT !.fa.recycled = @ \o ppns]

-----------------------------------------------------------------------------
\* page_table.rs

\* Where no frame of the allocator is mapped: the page of the trampoline.
strampoline == -1
RootTable == -1

\* A MemorySet that is not there.
Absent == [tables |-> <<>>, pte |-> <<>>, areas |-> <<>>]

\* PageTable::new
new_bare(mm, o) ==
  [frame_alloc(mm) EXCEPT
     !.space[o] = [Absent EXCEPT
                     !.tables = <<[index |-> RootTable, ppn |-> NextFrame(mm)]>>]]

find_pte_create(mm, o, vpn) ==
  LET index == vpn \div TABLE_SZ IN
  IF \E i \in DOMAIN mm.space[o].tables : mm.space[o].tables[i].index = index
  THEN mm
  ELSE [frame_alloc(mm) EXCEPT
          !.space[o].tables = Append(@, [index |-> index, ppn |-> NextFrame(mm)])]

\* PageTable::map; that no valid entry is overwritten is part of SpacesMapped.
map(mm, o, vpn, ppn) ==
  [find_pte_create(mm, o, vpn) EXCEPT !.space[o].pte = With(@, vpn, ppn)]

unmap(mm, o, vpns) ==
  [mm EXCEPT !.space[o].pte = [v \in DOMAIN @ \ vpns |-> @[v]]]

translate(mm, o, vpn) == mm.space[o].pte[vpn]

-----------------------------------------------------------------------------
\* memory_set.rs: a MapArea is [start, end, data_frames].

map_trampoline(mm, o) == map(mm, o, TRAMPOLINE, strampoline)

\* MapArea::map_one of the last area, a framed one: first its own frame, then
\* those of the page table.
map_one(mm, o, vpn) ==
  LET last == Len(mm.space[o].areas)
      m == map(frame_alloc(mm), o, vpn, NextFrame(mm))
  IN  [m EXCEPT !.space[o].areas[last].data_frames = With(@, vpn, NextFrame(mm))]

\* MapArea::new and MemorySet::push; copy_data writes program text, which mem
\* leaves out.
insert_framed_area(mm, o, start, end) ==
  LET Mapped[n \in 0..(end - start)] ==
        IF n = 0
        THEN [mm EXCEPT !.space[o].areas =
                Append(@, [start |-> start, end |-> end, data_frames |-> <<>>])]
        ELSE map_one(Mapped[n - 1], o, start + n - 1)
  IN  Mapped[end - start]

\* The pages of an area, and its frames in their order.
Pages(area) == area.start..(area.end - 1)
Frames(area) == [i \in 1..(area.end - area.start) |-> area.data_frames[area.start + i - 1]]

\* A mutant: the page table entries stay.
Mutant_unmap_area_stale(mm, o, area) == frame_dealloc(mm, Frames(area))

\* MapArea::unmap
unmap_area(mm, o, area) == unmap(frame_dealloc(mm, Frames(area)), o, Pages(area))

\* A mutant: the area stays in the list.
Mutant_remove_keeps_area(mm, o, start) ==
  LET areas == mm.space[o].areas
      found == {i \in DOMAIN areas : areas[i].start = start}
  IN  IF found = {} THEN mm ELSE unmap_area(mm, o, areas[Min(found)])

remove_area_with_start_vpn(mm, o, start) ==
  LET areas == mm.space[o].areas
      found == {i \in DOMAIN areas : areas[i].start = start}
  IN  IF found = {} THEN mm
      ELSE [unmap_area(mm, o, areas[Min(found)]) EXCEPT
              !.space[o].areas = RemoveAt(@, Min(found))]

\* areas.clear(): the frames are freed, the page table entries stay.
recycle_data_pages(mm, o) ==
  LET areas == mm.space[o].areas
      Freed[i \in 0..Len(areas)] ==
        IF i = 0 THEN <<>> ELSE Freed[i - 1] \o Frames(areas[i])
  IN  [frame_dealloc(mm, Freed[Len(areas)]) EXCEPT !.space[o].areas = <<>>]

\* The drop of a MemorySet: the page table, then the areas.
DropMemorySet(mm, o) ==
  LET tables == mm.space[o].tables
      freed == frame_dealloc(mm, [i \in DOMAIN tables |-> tables[i].ppn])
  IN  [recycle_data_pages(freed, o) EXCEPT !.space[o] = Absent]

\* A program is its number of pages, loaded from page 1 on.
from_elf(mm, o, pages) ==
  insert_framed_area(map_trampoline(new_bare(mm, o), o), o, 1, 1 + pages)

\* The second component of from_elf's result, past a guard page.
user_stack_base(pages) == 1 + pages + 1

CopyPage(mem, src, dst) == [mem EXCEPT ![dst] = mem[src]]

\* A new area like one of user's, with the contents of its pages.
CopyArea(mm, o, user, area) ==
  LET m == insert_framed_area(mm, o, area.start, area.end)
      Copied[v \in area.start..area.end] ==
        IF v = area.start THEN m.mem
        ELSE CopyPage(Copied[v - 1], translate(m, user, v - 1), translate(m, o, v - 1))
  IN  [m EXCEPT !.mem = Copied[area.end]]

from_existed_user(mm, o, user) ==
  LET areas == mm.space[user].areas
      Pushed[i \in 0..Len(areas)] ==
        IF i = 0 THEN map_trampoline(new_bare(mm, o), o)
        ELSE CopyArea(Pushed[i - 1], o, user, areas[i])
  IN  Pushed[Len(areas)]
==============================================================================
