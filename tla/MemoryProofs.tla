---------------------------- MODULE MemoryProofs ----------------------------
(***************************************************************************)
(* Proofs about Memory, for every number of processes and pages.           *)
(***************************************************************************)
EXTENDS MemoryIsolation, FiniteSets, FiniteSetTheorems, TLAPS

Live == ready \cup started

\* Only rows of app_pages are ever switched to.
LiveInRow ==
    /\ Live \subseteq Row \ {0}
    /\ curr_pid \in started
    /\ GPID_PROCESS \in started

\* A slot in use maps an exec address.
SlotsMapped ==
    \A r \in Row, i \in Addr :
       app_pages[r][i].private_addr # NULL => app_pages[r][i].exec_addr \in Addr

\* A process that is not there has no pages, one that is being loaded as many
\* as load_app has allocated.
LoadedSoFar ==
    /\ loading # 0 => loading \notin Live
    /\ loading # 0 /\ paddrs # <<>> => loading \in Row
    /\ \A r \in Row \ Live, i \in Addr :
          app_pages[r][i].private_addr # NULL
             <=> r # 0 /\ r = loading /\ i <= Len(paddrs)

\* PagesOwned, slot by slot.
InUse ==
    \A q \in Page : q \in bitmap <=>
       \E r \in Row, i \in Addr : app_pages[r][i].private_addr = q

NotShared ==
    \A r, s \in Row, i, j \in Addr :
       r # s /\ app_pages[r][i].private_addr = app_pages[s][j].private_addr
          => app_pages[r][i].private_addr = NULL

\* Slots never run out.
SlotsSuffice == fatal # "soft_tlb_map: mapping more pages than expected"

\* The inductive invariant.
Inv ==
    /\ TypeOK /\ ExecIsCurrent
    /\ LiveInRow /\ SlotsMapped /\ LoadedSoFar
    /\ InUse /\ NotShared /\ SlotsSuffice

-----------------------------------------------------------------------------
(***************************************************************************)
(* The sizes.                                                              *)
(***************************************************************************)
\* What the assumptions say of the sizes.
LEMMA Sizes ==
    /\ MAX_NPROCESS \in Nat /\ LastPid \in Nat /\ GPID_USER_START \in Nat
    /\ GPID_PROCESS = 1 /\ 1 < GPID_USER_START
    /\ GPID_USER_START <= LastPid /\ LastPid <= MAX_NPROCESS
    /\ GPID_PROCESS \in Row /\ GPID_PROCESS \in Pid
    /\ CODE_PAGES \in Nat /\ CODE_PAGES > 0
    /\ APPS_NPAGES = CODE_PAGES + 2 /\ APPS_NPAGES \in Nat
    /\ NPAGES \in Nat /\ APPS_NPAGES <= NPAGES
    /\ SYSCALL_ARG = APPS_NPAGES /\ SYSCALL_ARG \in Addr
    /\ NULL \notin Page /\ NULL = NPAGES
    /\ 0 \in Val
BY MemoryAssumption DEF GPID_PROCESS, APPS_NPAGES, SYSCALL_ARG, Addr, NULL, Page,
                        Row, Pid

-----------------------------------------------------------------------------
(***************************************************************************)
(* The switch.                                                             *)
(***************************************************************************)
MemoryRecord == [vm : Pid, exec : [Addr -> Val], content : [Page -> Val]]

\* Copying out writes values to pages only.
LEMMA CopyOutType ==
    ASSUME TypeOK, SlotsMapped, NEW m \in MemoryRecord, NEW p \in Row
    PROVE  CopyOut(m, p) \in MemoryRecord
<1> DEFINE slot(q) == CHOOSE i \in Mapped(p) : app_pages[p][i].private_addr = q
           c == [q \in Page |->
                   IF \E i \in Mapped(p) : app_pages[p][i].private_addr = q
                   THEN m.exec[app_pages[p][slot(q)].exec_addr]
                   ELSE m.content[q]]
<1>1. ASSUME NEW q \in Page PROVE c[q] \in Val
  <2>1. CASE \E i \in Mapped(p) : app_pages[p][i].private_addr = q
    <3>1. slot(q) \in Mapped(p) BY <2>1
    <3>2. app_pages[p][slot(q)].exec_addr \in Addr
      BY <3>1 DEF Mapped, SlotsMapped
    <3> QED BY <2>1, <3>2 DEF MemoryRecord
  <2>2. CASE ~ \E i \in Mapped(p) : app_pages[p][i].private_addr = q
    BY <2>2 DEF MemoryRecord
  <2> QED BY <2>1, <2>2
<1>2. c \in [Page -> Val] BY <1>1
<1>3. CopyOut(m, p) = [m EXCEPT !.content = c] BY DEF CopyOut
<1> HIDE DEF c
<1> QED BY <1>2, <1>3 DEF MemoryRecord

\* Copying in writes values to exec addresses only.
LEMMA CopyInType ==
    ASSUME TypeOK, NEW m \in MemoryRecord, NEW p \in Row
    PROVE  CopyIn(m, p) \in MemoryRecord
<1> DEFINE slot(a) == CHOOSE i \in Mapped(p) : app_pages[p][i].exec_addr = a
           e == [a \in Addr |->
                   IF \E i \in Mapped(p) : app_pages[p][i].exec_addr = a
                   THEN m.content[app_pages[p][slot(a)].private_addr]
                   ELSE m.exec[a]]
<1>1. ASSUME NEW a \in Addr PROVE e[a] \in Val
  <2>1. CASE \E i \in Mapped(p) : app_pages[p][i].exec_addr = a
    <3>1. slot(a) \in Mapped(p) BY <2>1
    <3>2. slot(a) \in Addr /\ app_pages[p][slot(a)].private_addr # NULL
      BY <3>1 DEF Mapped
    <3>3. app_pages[p][slot(a)] \in Mapping BY <3>2 DEF TypeOK
    <3>4. app_pages[p][slot(a)].private_addr \in Page BY <3>2, <3>3 DEF Mapping
    <3> QED BY <2>1, <3>4 DEF MemoryRecord
  <2>2. CASE ~ \E i \in Mapped(p) : app_pages[p][i].exec_addr = a
    BY <2>2 DEF MemoryRecord
  <2> QED BY <2>1, <2>2
<1>2. e \in [Addr -> Val] BY <1>1
<1>3. CopyIn(m, p) = [m EXCEPT !.exec = e] BY DEF CopyIn
<1> HIDE DEF e
<1> QED BY <1>2, <1>3 DEF MemoryRecord

\* After a switch to p the pages of p are at the exec addresses.
LEMMA SwitchFacts ==
    ASSUME TypeOK, SlotsMapped, NEW m \in MemoryRecord, m.vm \in Row,
           NEW p \in Row \ {0}, p \in Pid
    PROVE  /\ soft_tlb_switch(m, p) \in MemoryRecord
           /\ soft_tlb_switch(m, p).vm = p
<1>1. CASE p = m.vm BY <1>1 DEF soft_tlb_switch
<1>2. CASE p # m.vm
  <2> DEFINE c == CopyIn(CopyOut(m, m.vm), p)
  <2>1. c \in MemoryRecord BY CopyOutType, CopyInType
  <2>2. soft_tlb_switch(m, p) = [c EXCEPT !.vm = p] BY <1>2 DEF soft_tlb_switch
  <2> HIDE DEF c
  <2> QED BY <2>1, <2>2 DEF MemoryRecord
<1> QED BY <1>1, <1>2

-----------------------------------------------------------------------------
\* The state grass main() leaves satisfies the invariant.
LEMMA InvInit == Init => Inv
<1> SUFFICES ASSUME Init PROVE Inv OBVIOUS
<1> USE Sizes
<1>0. /\ app_pages \in [Row -> [Addr -> Mapping]]
      /\ \A r \in Row, i \in Addr :
            app_pages[r][i].private_addr = IF r = GPID_PROCESS THEN i - 1 ELSE NULL
      /\ \A i \in Addr : app_pages[GPID_PROCESS][i].exec_addr = i
  BY DEF Init, EmptyRow, Mapping, Page, Addr
<1>1. TypeOK
  <2>1. PICK v \in Val :
          /\ content = [q \in Page |-> IF q < CODE_PAGES THEN v ELSE 0]
          /\ exec = [a \in Addr |-> IF a <= CODE_PAGES THEN v ELSE 0]
    BY DEF Init
  <2>2. content \in [Page -> Val] /\ exec \in [Addr -> Val] BY <2>1
  <2>3. bitmap \subseteq Page BY DEF Init, Page
  <2>4. stack \in Val /\ proc_stack \in [Row -> Val] BY DEF Init
  <2>5. curr_vm_pid \in Pid /\ curr_pid \in Pid BY DEF Init
  <2>6. ready \subseteq Pid /\ started \subseteq Pid BY DEF Init
  <2>7. loading \in 0 .. LastPid BY DEF Init
  <2>8. paddrs \in Seq(Page) /\ Len(paddrs) <= APPS_NPAGES BY DEF Init
  <2> QED BY <1>0, <2>2, <2>3, <2>4, <2>5, <2>6, <2>7, <2>8 DEF Init, TypeOK
<1>2. ExecIsCurrent BY DEF Init, ExecIsCurrent
<1>3. LiveInRow BY DEF Init, LiveInRow, Live
<1>4. SlotsMapped BY <1>0 DEF SlotsMapped
<1>5. LoadedSoFar
  <2>1. loading = 0 /\ Len(paddrs) = 0 /\ Live = {GPID_PROCESS}
    BY DEF Init, Live
  <2>2. ASSUME NEW r \in Row \ Live, NEW i \in Addr
        PROVE  app_pages[r][i].private_addr = NULL /\ ~ (i <= Len(paddrs))
    BY <1>0, <2>1 DEF Addr
  <2> QED BY <2>1, <2>2 DEF LoadedSoFar
<1>6. InUse
  <2> SUFFICES ASSUME NEW q \in Page
               PROVE  q \in bitmap <=>
                        \E r \in Row, i \in Addr : app_pages[r][i].private_addr = q
    BY DEF InUse
  <2>1. q \in bitmap <=> q + 1 \in Addr BY DEF Init, Page, Addr
  <2>2. ASSUME q + 1 \in Addr
        PROVE  \E r \in Row, i \in Addr : app_pages[r][i].private_addr = q
    <3>1. app_pages[GPID_PROCESS][q + 1].private_addr = q
      BY <1>0, <2>2 DEF Page
    <3> QED BY <2>2, <3>1
  <2>3. ASSUME NEW r \in Row, NEW i \in Addr, app_pages[r][i].private_addr = q
        PROVE  q + 1 \in Addr
    <3>1. r = GPID_PROCESS /\ q = i - 1 BY <1>0, <2>3
    <3> QED BY <3>1 DEF Addr
  <2> QED BY <2>1, <2>2, <2>3
<1>7. NotShared BY <1>0 DEF NotShared
<1>8. SlotsSuffice BY DEF Init, SlotsSuffice
<1> QED BY <1>1, <1>2, <1>3, <1>4, <1>5, <1>6, <1>7, <1>8 DEF Inv

-----------------------------------------------------------------------------
(***************************************************************************)
(* Steps that leave the tables alone.                                      *)
(***************************************************************************)
\* The parts of the invariant about app_pages and the bitmap.
Tables == SlotsMapped /\ LoadedSoFar /\ InUse /\ NotShared

\* A step that changes neither table nor the set of processes keeps Tables.
LEMMA TablesKept ==
    ASSUME Inv, UNCHANGED <<bitmap, app_pages, loading, paddrs>>, Live' = Live
    PROVE  Tables'
BY DEF Inv, Tables, SlotsMapped, LoadedSoFar, InUse, NotShared

\* A store of the running process preserves the invariant.
LEMMA InvStore ==
    ASSUME Inv, NEW a \in Addr, NEW v \in Val, store(a, v)
    PROVE  Inv'
<1>1. Tables' BY TablesKept DEF store, LoadVars, Live
<1>2. TypeOK' BY DEF Inv, TypeOK, store, LoadVars
<1>3. LiveInRow' BY DEF Inv, LiveInRow, Live, store
<1> QED BY <1>1, <1>2, <1>3
        DEF Inv, Tables, store, ExecIsCurrent, SlotsSuffice

\* So does a change of its stack.
LEMMA InvPush ==
    ASSUME Inv, NEW v \in Val, push(v)
    PROVE  Inv'
<1>1. Tables' BY TablesKept DEF push, LoadVars, Live
<1>2. TypeOK' BY DEF Inv, TypeOK, push, LoadVars
<1>3. LiveInRow' BY DEF Inv, LiveInRow, Live, push
<1> QED BY <1>1, <1>2, <1>3
        DEF Inv, Tables, push, ExecIsCurrent, SlotsSuffice

\* A trap that ends in p, with the memory of p at the exec addresses.
LEMMA InvDispatch ==
    ASSUME Inv, NEW p \in Pid, Dispatch(p),
           NEW m \in MemoryRecord, m.vm = p, SetMemory(m)
    PROVE  Inv'
<1> USE Sizes
<1>1. p \in Live /\ p \in Row \ {0} /\ curr_pid \in Row
  BY DEF Inv, LiveInRow, Dispatch, Live
<1>2. Live' = Live BY <1>1 DEF Dispatch, Live
<1>3. Tables' BY <1>2, TablesKept DEF Dispatch, LoadVars
<1>4. TypeOK'
  <2>1. proc_stack' \in [Row -> Val] /\ stack' \in Val
    BY <1>1 DEF Dispatch, manage_userstack, Inv, TypeOK
  <2>2. content' \in [Page -> Val] /\ exec' \in [Addr -> Val] /\ curr_vm_pid' \in Pid
    BY DEF SetMemory, MemoryRecord
  <2> QED BY <2>1, <2>2 DEF Inv, TypeOK, Dispatch, LoadVars
<1>5. LiveInRow' BY <1>2 DEF Inv, LiveInRow, Dispatch
<1>6. ExecIsCurrent' BY DEF ExecIsCurrent, SetMemory, Dispatch
<1> QED BY <1>3, <1>4, <1>5, <1>6 DEF Inv, Tables, Dispatch, SlotsSuffice

\* The memory that a switch starts from.
LEMMA MemoryType ==
    ASSUME Inv
    PROVE  Memory \in MemoryRecord /\ Memory.vm \in Row
BY DEF Inv, TypeOK, Memory, MemoryRecord, ExecIsCurrent, LiveInRow, Live

\* proc_yield preserves the invariant.
LEMMA InvYield ==
    ASSUME Inv, NEW p \in Pid, proc_yield(p)
    PROVE  Inv'
<1> DEFINE m == soft_tlb_switch(Memory, p)
<1>1. p \in Row \ {0} BY DEF proc_yield, Dispatch, Inv, LiveInRow, Live
<1>2. m \in MemoryRecord /\ m.vm = p BY <1>1, SwitchFacts, MemoryType DEF Inv
<1>3. Dispatch(p) /\ SetMemory(m) BY DEF proc_yield
<1> HIDE DEF m
<1> QED BY <1>2, <1>3, InvDispatch

\* msgcpy preserves it: the last of its three switches decides.
LEMMA InvMsgcpy ==
    ASSUME Inv, NEW src \in Pid, NEW dst \in Pid, NEW p \in Pid,
           msgcpy(src, dst, p)
    PROVE  Inv'
<1> DEFINE atSrc == soft_tlb_switch(Memory, src)
           atDst == soft_tlb_switch(atSrc, dst)
           copied == [atDst EXCEPT !.exec[SYSCALL_ARG] = atSrc.exec[SYSCALL_ARG]]
           m == soft_tlb_switch(copied, p)
<1>1. src \in Row \ {0} /\ dst \in Row \ {0} /\ p \in Row \ {0}
  BY DEF msgcpy, Dispatch, Inv, LiveInRow, Live
<1>2. TypeOK /\ SlotsMapped BY DEF Inv
<1>3. atSrc \in MemoryRecord /\ atSrc.vm = src
  BY <1>1, <1>2, SwitchFacts, MemoryType
<1> HIDE DEF atSrc
<1>4. atDst \in MemoryRecord /\ atDst.vm = dst BY <1>1, <1>2, <1>3, SwitchFacts
<1> HIDE DEF atDst
<1>5. copied \in MemoryRecord /\ copied.vm = dst
  BY <1>3, <1>4, Sizes DEF MemoryRecord
<1> HIDE DEF copied
<1>6. m \in MemoryRecord /\ m.vm = p BY <1>1, <1>2, <1>5, SwitchFacts
<1>7. Dispatch(p) /\ SetMemory(m) BY DEF msgcpy, atSrc, atDst, copied
<1> HIDE DEF m
<1> QED BY <1>6, <1>7, InvDispatch

-----------------------------------------------------------------------------
(***************************************************************************)
(* Loading.                                                                *)
(***************************************************************************)
\* The list of allocated pages grows by one.
LEMMA AppendFacts ==
    ASSUME Inv, NEW q \in Page
    PROVE  /\ paddrs \in Seq(Page) /\ Len(paddrs) \in Nat
           /\ Append(paddrs, q) \in Seq(Page)
           /\ Len(Append(paddrs, q)) = Len(paddrs) + 1
           /\ Append(paddrs, q) # paddrs
<1>1. paddrs \in Seq(Page) BY DEF Inv, TypeOK
<1>2. Len(paddrs) \in Nat BY <1>1
<1>3. Append(paddrs, q) \in Seq(Page) /\ Len(Append(paddrs, q)) = Len(paddrs) + 1
  BY <1>1
<1> QED BY <1>1, <1>2, <1>3

\* elf_load starts with a process that has no pages.
LEMMA InvElfLoad ==
    ASSUME Inv, NEW p \in Pid, elf_load(p)
    PROVE  Inv'
<1> USE Sizes
<1>1. Live' = Live BY DEF elf_load, ProcVars, Live
<1>2. TypeOK'
  <2>1. loading' \in 0 .. LastPid BY DEF elf_load, Pid
  <2>2. paddrs' \in Seq(Page) /\ Len(paddrs') <= APPS_NPAGES BY DEF elf_load
  <2> QED BY <2>1, <2>2 DEF Inv, TypeOK, elf_load, ProcVars
<1>3. LoadedSoFar'
  <2>1. loading' = p /\ p # 0 /\ p \notin Live /\ paddrs' = <<>> /\ loading = 0
    BY DEF elf_load, Live, Pid, InSysProc
  <2>2. ASSUME NEW r \in Row \ Live, NEW i \in Addr
        PROVE  app_pages[r][i].private_addr = NULL
    BY <2>1, <2>2 DEF Inv, LoadedSoFar, LiveInRow, TypeOK, Addr, elf_load, InSysProc
  <2>3. \A i \in Addr : ~ (i <= Len(paddrs')) BY <2>1 DEF Addr
  <2> QED BY <1>1, <2>1, <2>2, <2>3 DEF LoadedSoFar, elf_load
<1>4. SlotsMapped' /\ InUse' /\ NotShared'
  <2>1. bitmap' = bitmap /\ app_pages' = app_pages BY DEF elf_load
  <2>2. SlotsMapped' BY <2>1 DEF Inv, SlotsMapped
  <2>3. InUse' BY <2>1 DEF Inv, InUse
  <2>4. NotShared' BY <2>1, ZenonT(60) DEF Inv, NotShared
  <2> QED BY <2>2, <2>3, <2>4
<1>5. LiveInRow' BY <1>1 DEF Inv, LiveInRow, elf_load, ProcVars
<1> QED BY <1>2, <1>3, <1>4, <1>5
        DEF Inv, elf_load, ProcVars, ExecIsCurrent, SlotsSuffice

\* One more page for the process that is being loaded: the next slot maps the
\* next address to a page that nobody has.
LEMMA InvMapPage ==
    ASSUME Inv, InSysProc, loading # 0, NEW a \in Addr, a = Len(paddrs) + 1,
           NEW v \in Val, MapPage(a, v)
    PROVE  Inv'
<1> USE Sizes
<1>1. Live' = Live BY DEF MapPage, ProcVars, Live
<1>2. LiveInRow' /\ ExecIsCurrent'
  BY <1>1 DEF Inv, LiveInRow, ExecIsCurrent, MapPage, ProcVars
<1>3. CASE UNCHANGED <<bitmap, content, app_pages, paddrs>>
  <2>1. Tables' BY <1>1, <1>3, TablesKept DEF MapPage
  <2>2. fatal' \in {"none", "pmalloc: no more available page", fatal}
           \/ \E q \in Free : Append(paddrs, q) = paddrs
    BY <1>3 DEF MapPage
  <2>3. ASSUME NEW q \in Free PROVE Append(paddrs, q) # paddrs
    BY AppendFacts DEF Free
  <2>4. fatal = "none" BY DEF InSysProc, Running
  <2>5. stray' \in BOOLEAN BY DEF MapPage, Inv, TypeOK
  <2>6. fatal' \in {"none", "pmalloc: no more available page"}
    BY <2>2, <2>3, <2>4
  <2>7. TypeOK' BY <1>3, <2>5, <2>6 DEF Inv, TypeOK, MapPage, ProcVars
  <2>8. SlotsSuffice' BY <2>6 DEF SlotsSuffice
  <2> QED BY <1>2, <2>1, <2>7, <2>8 DEF Inv, Tables
<1>4. ASSUME loading \in Row, NEW q \in Free,
             pmalloc(q, v), soft_tlb_map(loading, a, q),
             paddrs' = Append(paddrs, q), UNCHANGED stray
      PROVE  Inv'
  <2> DEFINE slots == Addr \ Mapped(loading)
             new == [private_addr |-> q, exec_addr |-> a]
  <2>1. q \in Page /\ q \notin bitmap /\ q # NULL BY DEF Free
  <2>2. loading \in Row \ Live BY <1>4 DEF Inv, LoadedSoFar
  <2>3. \A i \in Addr : i \in slots <=> ~ (i <= Len(paddrs))
    BY <2>2 DEF Inv, LoadedSoFar, Mapped
  <2>4. a \in slots /\ \A i \in slots : a <= i
    BY <2>1, <2>3, AppendFacts DEF Addr
  <2>5. fatal' = fatal /\
        app_pages' = [app_pages EXCEPT ![loading] = [@ EXCEPT ![a] = new]]
    <3>1. slots # {} BY <2>4
    <3>2. PICK i \in slots :
             /\ FirstOf(slots, i)
             /\ app_pages' = [app_pages EXCEPT ![loading] = [@ EXCEPT ![i] = new]]
             /\ UNCHANGED fatal
      BY <1>4, <3>1 DEF soft_tlb_map
    <3>3. i = a BY <2>4, <3>2 DEF FirstOf, Addr
    <3> QED BY <3>2, <3>3
  <2>6. /\ app_pages' \in [Row -> [Addr -> Mapping]]
        /\ app_pages'[loading][a] = new
        /\ \A r \in Row, i \in Addr : r # loading \/ i # a =>
              app_pages'[r][i] = app_pages[r][i]
    <3>1. new \in Mapping BY <2>1 DEF Mapping
    <3>2. app_pages \in [Row -> [Addr -> Mapping]] BY DEF Inv, TypeOK
    <3> HIDE DEF new
    <3> QED BY <1>4, <2>5, <3>1, <3>2
  <2>7. app_pages[loading][a].private_addr = NULL BY <2>4 DEF Mapped
  <2>8. TypeOK'
    <3>1. bitmap' \subseteq Page /\ content' \in [Page -> Val]
      BY <1>4, <2>1 DEF pmalloc, Inv, TypeOK
    <3>2. paddrs' \in Seq(Page) /\ Len(paddrs') = a
      BY <1>4, <2>1, AppendFacts
    <3>3. a <= APPS_NPAGES BY DEF Addr
    <3>4. fatal' = "none" /\ stray' \in BOOLEAN
      BY <1>4, <2>5 DEF InSysProc, Running, Inv, TypeOK
    <3>5. UNCHANGED <<loading, ready, ProcVars>> BY DEF MapPage
    <3> QED BY <2>6, <3>1, <3>2, <3>3, <3>4, <3>5 DEF Inv, TypeOK, ProcVars
  <2>9. SlotsMapped'
    <3> SUFFICES ASSUME NEW r \in Row, NEW i \in Addr,
                        app_pages'[r][i].private_addr # NULL
                 PROVE  app_pages'[r][i].exec_addr \in Addr
      BY DEF SlotsMapped
    <3>1. CASE r = loading /\ i = a BY <2>6, <3>1
    <3>2. CASE r # loading \/ i # a BY <2>6, <3>2 DEF Inv, SlotsMapped
    <3> QED BY <3>1, <3>2
  <2>10. LoadedSoFar'
    <3>1. loading' = loading /\ Len(paddrs') = Len(paddrs) + 1
      BY <1>4, <2>1, AppendFacts DEF MapPage
    <3>2. ASSUME NEW r \in Row \ Live, NEW i \in Addr
          PROVE  app_pages'[r][i].private_addr # NULL
                   <=> r # 0 /\ r = loading /\ i <= Len(paddrs) + 1
      <4>1. CASE r = loading /\ i = a BY <2>1, <2>6, <4>1 DEF Addr
      <4>2. CASE r # loading \/ i # a
        <5>1. app_pages'[r][i] = app_pages[r][i] BY <2>6, <4>2
        <5>2. app_pages[r][i].private_addr # NULL
                 <=> r # 0 /\ r = loading /\ i <= Len(paddrs)
          BY DEF Inv, LoadedSoFar
        <5>3. Len(paddrs) \in Nat BY <2>1, AppendFacts
        <5> QED BY <4>2, <5>1, <5>2, <5>3 DEF Addr
      <4> QED BY <4>1, <4>2
    <3> QED BY <1>1, <1>4, <2>2, <3>1, <3>2 DEF LoadedSoFar
  <2>11. InUse'
    <3> SUFFICES ASSUME NEW x \in Page
                 PROVE  x \in bitmap' <=>
                   \E r \in Row, i \in Addr : app_pages'[r][i].private_addr = x
      BY DEF InUse
    <3>1. x \in bitmap' <=> x \in bitmap \/ x = q BY <1>4 DEF pmalloc
    <3>2. x \in bitmap <=>
             \E r \in Row, i \in Addr : app_pages[r][i].private_addr = x
      BY DEF Inv, InUse
    <3>3. ASSUME x = q
          PROVE  \E r \in Row, i \in Addr : app_pages'[r][i].private_addr = x
      <4>1. app_pages'[loading][a].private_addr = x BY <2>6, <3>3
      <4> QED BY <1>4, <4>1
    <3>4. ASSUME NEW r \in Row, NEW i \in Addr, app_pages[r][i].private_addr = x
          PROVE  app_pages'[r][i].private_addr = x
      <4>1. r # loading \/ i # a BY <2>7, <3>4
      <4> QED BY <2>6, <3>4, <4>1
    <3>5. ASSUME NEW r \in Row, NEW i \in Addr, app_pages'[r][i].private_addr = x
          PROVE  x = q \/ app_pages[r][i].private_addr = x
      <4>1. CASE r = loading /\ i = a BY <2>6, <3>5, <4>1
      <4>2. CASE r # loading \/ i # a BY <2>6, <3>5, <4>2
      <4> QED BY <4>1, <4>2
    <3> QED BY <3>1, <3>2, <3>3, <3>4, <3>5
  <2>12. NotShared'
    <3>1. ASSUME NEW r \in Row, NEW i \in Addr
          PROVE  app_pages[r][i].private_addr # q
      BY <2>1 DEF Inv, InUse
    <3> QED BY <2>1, <2>6, <3>1 DEF Inv, NotShared
  <2>13. SlotsSuffice' BY <2>5 DEF Inv, SlotsSuffice
  <2> QED BY <1>2, <2>8, <2>9, <2>10, <2>11, <2>12, <2>13 DEF Inv
<1> QED BY <1>3, <1>4 DEF MapPage

\* Filling a page changes no table.
LEMMA InvLoadRead ==
    ASSUME Inv, NEW k \in 1 .. CODE_PAGES, NEW v \in Val, load_read(k, v)
    PROVE  Inv'
<1>1. Live' = Live BY DEF load_read, ProcVars, Live
<1>2. Tables' BY <1>1, TablesKept DEF load_read
<1>3. TypeOK' BY DEF Inv, TypeOK, load_read, ProcVars
<1>4. LiveInRow' BY <1>1 DEF Inv, LiveInRow, load_read, ProcVars
<1> QED BY <1>2, <1>3, <1>4
        DEF Inv, Tables, load_read, ProcVars, ExecIsCurrent, SlotsSuffice

\* A process that is set ready has been loaded into a row.
LEMMA InvSetReady ==
    ASSUME Inv, proc_set_ready
    PROVE  Inv'
<1> USE Sizes
<1>1. loading # 0 /\ paddrs # <<>>
  <2>1. Len(paddrs) = SYSCALL_ARG /\ loading # 0 BY DEF proc_set_ready
  <2> QED BY <2>1
<1>2. loading \in Row BY <1>1 DEF Inv, LoadedSoFar
<1>3. Live' = Live \cup {loading} /\ loading' = 0
  BY DEF proc_set_ready, ProcVars, Live
<1>4. LiveInRow'
  BY <1>1, <1>2, <1>3 DEF Inv, LiveInRow, proc_set_ready, ProcVars
<1>5. LoadedSoFar'
  <2>1. ASSUME NEW r \in Row \ Live', NEW i \in Addr
        PROVE  app_pages[r][i].private_addr = NULL
    BY <1>3 DEF Inv, LoadedSoFar
  <2> QED BY <1>3, <2>1 DEF LoadedSoFar, proc_set_ready
<1>6. TypeOK'
  <2>1. loading' \in 0 .. LastPid BY <1>3
  <2>2. loading \in Pid
    <3>1. loading \in 0 .. LastPid BY DEF Inv, TypeOK
    <3> QED BY <1>1, <3>1 DEF Pid
  <2>3. ready' \subseteq Pid BY <2>2 DEF proc_set_ready, Inv, TypeOK
  <2> QED BY <2>1, <2>3 DEF Inv, TypeOK, proc_set_ready, ProcVars
<1>7. SlotsMapped' /\ InUse' /\ NotShared'
  <2>1. bitmap' = bitmap /\ app_pages' = app_pages BY DEF proc_set_ready
  <2> QED BY <2>1 DEF Inv, SlotsMapped, InUse, NotShared
<1> QED BY <1>4, <1>5, <1>6, <1>7
        DEF Inv, proc_set_ready, ProcVars, ExecIsCurrent, SlotsSuffice

-----------------------------------------------------------------------------
(***************************************************************************)
(* proc_free.  Only applications are freed, and only by sys_proc.          *)
(***************************************************************************)
\* proc_free takes pages from the processes it frees and from no other.
LEMMA InvFree ==
    ASSUME Inv, NEW P \in SUBSET (Users \cap Row), proc_free(P)
    PROVE  Inv'
<1> USE Sizes
<1>1. InSysProc /\ loading = 0 /\ soft_tlb_free(P) BY DEF proc_free
<1>2. GPID_PROCESS \notin P /\ P \subseteq Row BY DEF Users
<1>3. Live' = Live \ P BY DEF proc_free, Live
<1>4. \A r \in Row, i \in Addr :
         app_pages'[r][i] = IF r \in P
                            THEN [private_addr |-> NULL, exec_addr |-> NULL]
                            ELSE app_pages[r][i]
  BY <1>1 DEF soft_tlb_free, EmptyRow
<1>5. LiveInRow' /\ ExecIsCurrent' /\ SlotsSuffice'
  BY <1>1, <1>2, <1>3
     DEF Inv, LiveInRow, ExecIsCurrent, SlotsSuffice, proc_free, InSysProc
<1>6. SlotsMapped' BY <1>4 DEF Inv, SlotsMapped
<1>7. LoadedSoFar'
  <2>1. loading' = 0 /\ loading = 0 BY <1>1 DEF proc_free
  <2>2. ASSUME NEW r \in Row \ Live', NEW i \in Addr
        PROVE  app_pages'[r][i].private_addr = NULL
    <3>1. CASE r \in P BY <1>4, <3>1
    <3>2. CASE r \notin P
      <4>1. r \in Row \ Live BY <1>3, <3>2
      <4>2. app_pages[r][i].private_addr = NULL
        BY <2>1, <4>1 DEF Inv, LoadedSoFar
      <4> QED BY <1>4, <3>2, <4>2
    <3> QED BY <3>1, <3>2
  <2> QED BY <2>1, <2>2 DEF LoadedSoFar
<1>8. InUse'
  <2> SUFFICES ASSUME NEW x \in Page
               PROVE  x \in bitmap' <=>
                 \E r \in Row, i \in Addr : app_pages'[r][i].private_addr = x
    BY DEF InUse
  <2>1. x \in bitmap' <=>
           x \in bitmap /\ \A p \in P, i \in Addr : app_pages[p][i].private_addr # x
    BY <1>1 DEF soft_tlb_free
  <2>2. x \in bitmap <=>
           \E r \in Row, i \in Addr : app_pages[r][i].private_addr = x
    BY DEF Inv, InUse
  <2>3. x # NULL OBVIOUS
  <2>4. ASSUME NEW r \in Row, NEW i \in Addr, app_pages'[r][i].private_addr = x
        PROVE  x \in bitmap'
    <3>1. r \notin P /\ app_pages[r][i].private_addr = x BY <1>4, <2>3, <2>4
    <3>2. ASSUME NEW p \in P, NEW j \in Addr
          PROVE  app_pages[p][j].private_addr # x
      BY <1>2, <2>3, <3>1 DEF Inv, NotShared
    <3> QED BY <2>1, <2>2, <3>1, <3>2
  <2>5. ASSUME x \in bitmap'
        PROVE  \E r \in Row, i \in Addr : app_pages'[r][i].private_addr = x
    <3>1. PICK r \in Row, i \in Addr : app_pages[r][i].private_addr = x
      BY <2>1, <2>2, <2>5
    <3>2. r \notin P BY <2>1, <2>5, <3>1
    <3>3. app_pages'[r][i].private_addr = x BY <1>4, <3>1, <3>2
    <3> QED BY <3>3
  <2> QED BY <2>4, <2>5
<1>9. NotShared' BY <1>4 DEF Inv, NotShared
<1>10. TypeOK'
  <2>1. app_pages' \in [Row -> [Addr -> Mapping]]
    BY <1>1 DEF soft_tlb_free, EmptyRow, Mapping, Inv, TypeOK
  <2>2. bitmap' \subseteq Page BY <1>1 DEF soft_tlb_free, Inv, TypeOK
  <2>3. ready' \subseteq Pid /\ started' \subseteq Pid
    BY DEF proc_free, Inv, TypeOK
  <2> QED BY <2>1, <2>2, <2>3 DEF Inv, TypeOK, proc_free
<1> QED BY <1>5, <1>6, <1>7, <1>8, <1>9, <1>10 DEF Inv

-----------------------------------------------------------------------------
\* The invariant holds in every reachable state.
THEOREM Invariance == Spec => []Inv
<1>1. Init => Inv BY InvInit
<1>2. Inv /\ [Next]_vars => Inv'
  <2> SUFFICES ASSUME Inv, [Next]_vars PROVE Inv' OBVIOUS
  <2> USE Sizes
  <2>1. CASE UNCHANGED vars
    <3>1. Tables' BY <2>1, TablesKept DEF vars, Live
    <3>2. TypeOK' BY <2>1 DEF vars, Inv, TypeOK
    <3>3. LiveInRow' BY <2>1 DEF vars, Inv, LiveInRow, Live
    <3> QED BY <2>1, <3>1, <3>2, <3>3
            DEF vars, Inv, Tables, ExecIsCurrent, SlotsSuffice
  <2>2. CASE \E a \in Addr, v \in Val : store(a, v) BY <2>2, InvStore
  <2>3. CASE \E v \in Val : push(v) BY <2>3, InvPush
  <2>4. CASE \E p \in Pid : proc_yield(p) BY <2>4, InvYield
  <2>5. CASE \E src, dst, p \in Pid : msgcpy(src, dst, p) BY <2>5, InvMsgcpy
  <2>6. CASE \E p \in Pid : elf_load(p) BY <2>6, InvElfLoad
  <2>7. Len(paddrs) \in Nat
    <3>1. paddrs \in Seq(Page) BY DEF Inv, TypeOK
    <3> QED BY <3>1
  <2>8. CASE load_code
    <3>1. /\ InSysProc /\ loading # 0 /\ Len(paddrs) + 1 \in Addr
          /\ MapPage(Len(paddrs) + 1, 0)
      BY <2>7, <2>8 DEF load_code, Addr
    <3> QED BY <3>1, InvMapPage
  <2>9. CASE \E k \in 1 .. CODE_PAGES, v \in Val : load_read(k, v)
    BY <2>9, InvLoadRead
  <2>10. CASE \E v \in Val : load_args(v)
    <3>1. PICK v \in Val : load_args(v) BY <2>10
    <3>2. /\ InSysProc /\ loading # 0 /\ APPS_ARG \in Addr
          /\ APPS_ARG = Len(paddrs) + 1 /\ MapPage(APPS_ARG, v)
      BY <3>1 DEF load_args, APPS_ARG, Addr
    <3> QED BY <3>2, InvMapPage
  <2>11. CASE load_syscall_page
    <3>1. /\ InSysProc /\ loading # 0 /\ SYSCALL_ARG \in Addr
          /\ SYSCALL_ARG = Len(paddrs) + 1 /\ MapPage(SYSCALL_ARG, 0)
      BY <2>11 DEF load_syscall_page, APPS_ARG
    <3> QED BY <3>1, InvMapPage
  <2>12. CASE proc_set_ready BY <2>12, InvSetReady
  <2>13. CASE \E p \in Users \cap Row : proc_free({p})
    <3>1. PICK p \in Users \cap Row : proc_free({p}) BY <2>13
    <3>2. {p} \in SUBSET (Users \cap Row) OBVIOUS
    <3> QED BY <3>1, <3>2, InvFree
  <2>14. CASE proc_free((Users \cap Row) \cap (ready \cup started))
    <3>1. (Users \cap Row) \cap (ready \cup started) \in SUBSET (Users \cap Row)
      OBVIOUS
    <3> QED BY <2>14, <3>1, InvFree
  <2> QED BY <2>1, <2>2, <2>3, <2>4, <2>5, <2>6, <2>8, <2>9, <2>10, <2>11,
             <2>12, <2>13, <2>14 DEF Next
<1> QED BY <1>1, <1>2, PTL DEF Spec

\* Every variable of the memory layer always has its type; in particular the
\* copies of soft_tlb_switch stay within the exec addresses and the pages.
THEOREM TypeCorrect == Spec => []TypeOK
BY Invariance, PTL DEF Inv

\* The process that runs always finds its own pages at the exec addresses,
\* whatever switches msgcpy made on the way.
THEOREM OwnPages == Spec => []ExecIsCurrent
BY Invariance, PTL DEF Inv

\* No page is ever lost, shared or freed while it is mapped, for any number of
\* processes and pages and any order of loads, exits and kills.
THEOREM PageOwnership == Spec => []PagesOwned
<1>1. Inv => PagesOwned
  <2> SUFFICES ASSUME Inv PROVE PagesOwned OBVIOUS
  <2> USE Sizes
  <2>1. ASSUME NEW r \in Row, NEW q
        PROVE  q \in PagesOf(r) <=>
                 q # NULL /\ \E i \in Addr : app_pages[r][i].private_addr = q
    BY DEF PagesOf, Mapped
  <2>2. ASSUME NEW r \in Row PROVE PagesOf(r) \subseteq Page
    <3> SUFFICES ASSUME NEW i \in Addr, app_pages[r][i].private_addr # NULL
                 PROVE  app_pages[r][i].private_addr \in Page
      BY <2>1
    <3>1. app_pages[r][i] \in Mapping BY ZenonT(60) DEF Inv, TypeOK
    <3> QED BY <3>1 DEF Mapping
  <2>3. bitmap \subseteq Page BY DEF Inv, TypeOK
  <2>4. ASSUME NEW q \in Page
        PROVE  q \in bitmap <=> \E r \in Row : q \in PagesOf(r)
    BY <2>1 DEF Inv, InUse
  <2>5. bitmap = UNION {PagesOf(r) : r \in Row} BY <2>2, <2>3, <2>4
  <2>6. ASSUME NEW r \in Row, NEW s \in Row, r # s
        PROVE  PagesOf(r) \cap PagesOf(s) = {}
    BY <2>1, <2>6 DEF Inv, NotShared
  <2> QED BY <2>5, <2>6 DEF PagesOwned
<1> QED BY <1>1, Invariance, PTL

\* load_app never meets the FATAL of soft_tlb_map: the slots of a process are
\* always free when it is loaded.
THEOREM SlotsNeverRunOut == Spec => []SlotsSuffice
BY Invariance, PTL DEF Inv

-----------------------------------------------------------------------------
\* While a program is loaded, and its next slot is empty, some page is free:
\* every page in use is that of a slot of a process, and a slot is left.
LEMMA PageIsLeft ==
    ASSUME Inv, NPAGES >= LastPid * APPS_NPAGES,
           loading # 0, Len(paddrs) < APPS_NPAGES
    PROVE  Free # {}
<1> USE Sizes
<1> DEFINE k == Len(paddrs) + 1
           Slots == (Pid \X Addr) \ {<<loading, k>>}
<1>1. loading \in Pid /\ loading \notin Live /\ k \in Addr
  <2>1. paddrs \in Seq(Page) /\ loading \in 0 .. LastPid BY DEF Inv, TypeOK
  <2>2. Len(paddrs) \in Nat BY <2>1
  <2> QED BY <2>1, <2>2 DEF Pid, Addr, Inv, LoadedSoFar
<1>2. SUFFICES ASSUME Free = {} PROVE FALSE OBVIOUS
<1>3. ASSUME NEW q \in Page
      PROVE  \E s \in Slots : app_pages[s[1]][s[2]].private_addr = q
  <2>1. q \in bitmap BY <1>2 DEF Free
  <2>2. PICK r \in Row, i \in Addr : app_pages[r][i].private_addr = q
    BY <2>1 DEF Inv, InUse
  <2>3. q # NULL OBVIOUS
  <2>4. r \in Pid /\ <<r, i>> # <<loading, k>>
    <3>1. CASE r \in Live
      BY <1>1, <3>1 DEF Inv, TypeOK, Live
    <3>2. CASE r \notin Live
      <4>1. r # 0 /\ r = loading /\ i <= Len(paddrs)
        BY <2>2, <2>3, <3>2 DEF Inv, LoadedSoFar
      <4>2. Len(paddrs) \in Nat
        <5>1. paddrs \in Seq(Page) BY DEF Inv, TypeOK
        <5> QED BY <5>1
      <4>3. i # k BY <4>1, <4>2 DEF Addr
      <4> QED BY <1>1, <4>1, <4>3
    <3> QED BY <3>1, <3>2
  <2>5. <<r, i>> \in Slots BY <2>4
  <2> HIDE DEF Slots
  <2> QED BY <2>2, <2>5
<1> DEFINE slot == [q \in Page |->
                      CHOOSE s \in Slots : app_pages[s[1]][s[2]].private_addr = q]
<1>4. \A q \in Page : slot[q] \in Slots
                        /\ app_pages[slot[q][1]][slot[q][2]].private_addr = q
  BY <1>3
<1>5. slot \in [Page -> Slots]
  <2> HIDE DEF Slots
  <2> QED BY <1>3
<1>6. IsFiniteSet(Page) /\ Cardinality(Page) = NPAGES
  <2>1. 0 \in Int /\ NPAGES - 1 \in Int /\ NPAGES > 0 BY DEF Addr
  <2>2. /\ IsFiniteSet(0 .. NPAGES - 1)
        /\ Cardinality(0 .. NPAGES - 1) = IF 0 > NPAGES - 1 THEN 0
                                          ELSE NPAGES - 1 - 0 + 1
    BY <2>1, FS_Interval
  <2> QED BY <2>1, <2>2 DEF Page
<1>7. IsFiniteSet(Slots) /\ Cardinality(Slots) = LastPid * APPS_NPAGES - 1
  <2>1. IsFiniteSet(Pid) /\ Cardinality(Pid) = LastPid
    <3>1. /\ IsFiniteSet(1 .. LastPid)
          /\ Cardinality(1 .. LastPid) = IF 1 > LastPid THEN 0 ELSE LastPid - 1 + 1
      <4>1. 1 \in Int /\ LastPid \in Int OBVIOUS
      <4> QED BY ONLY <4>1, FS_Interval
    <3> QED BY <3>1 DEF Pid
  <2>2. IsFiniteSet(Addr) /\ Cardinality(Addr) = APPS_NPAGES
    <3>1. /\ IsFiniteSet(1 .. APPS_NPAGES)
          /\ Cardinality(1 .. APPS_NPAGES)
                = IF 1 > APPS_NPAGES THEN 0 ELSE APPS_NPAGES - 1 + 1
      BY FS_Interval
    <3> QED BY <3>1 DEF Addr
  <2>3. /\ IsFiniteSet(Pid \X Addr)
        /\ Cardinality(Pid \X Addr) = LastPid * APPS_NPAGES
    BY <2>1, <2>2, FS_Product
  <2>4. <<loading, k>> \in Pid \X Addr BY <1>1
  <2> DEFINE all == Pid \X Addr
             next == <<loading, k>>
  <2>5. IsFiniteSet(all) /\ Cardinality(all) = LastPid * APPS_NPAGES /\ next \in all
    BY <2>3, <2>4
  <2> HIDE DEF all, next
  <2>6. IsFiniteSet(all \ {next}) /\ Cardinality(all \ {next}) = Cardinality(all) - 1
    BY ONLY <2>5, FS_RemoveElement
  <2>7. Slots = all \ {next} BY DEF all, next
  <2> QED BY ONLY <2>5, <2>6, <2>7
<1> HIDE DEF Slots, slot
<1>8. Cardinality(Slots) < Cardinality(Page)
  <2> DEFINE n == LastPid * APPS_NPAGES
  <2>1. n \in Int BY Sizes
  <2>2. NPAGES >= n OBVIOUS
  <2>3. Cardinality(Slots) = n - 1 BY <1>7
  <2> HIDE DEF n
  <2> QED BY <1>6, <2>1, <2>2, <2>3
<1>9. \E x, y \in Page : x # y /\ slot[x] = slot[y]
  BY <1>5, <1>6, <1>7, <1>8, FS_PigeonHole
<1> QED BY <1>4, <1>9

\* Loading never meets the FATAL of pmalloc either, when there are as many
\* pages as LastPid programs need: 120 and 16 * 6 in page_alloc.c and egos.h.
THEOREM Allocation ==
    ASSUME NPAGES >= LastPid * APPS_NPAGES
    PROVE  Spec => []AllocationSucceeds
<1>1. Init => AllocationSucceeds BY DEF Init, AllocationSucceeds
<1>2. AllocationSucceeds /\ Inv /\ Inv' /\ [Next]_vars => AllocationSucceeds'
  <2> SUFFICES ASSUME AllocationSucceeds, Inv, Inv', [Next]_vars
               PROVE  AllocationSucceeds'
    OBVIOUS
  <2>1. ASSUME NEW a, NEW v, MapPage(a, v), loading # 0, Len(paddrs) < APPS_NPAGES
        PROVE  AllocationSucceeds'
    <3>1. Free # {} BY <2>1, PageIsLeft
    <3>2. fatal' \in {"none", "soft_tlb_map: mapping more pages than expected"}
      BY <2>1, <3>1 DEF MapPage, soft_tlb_map, AllocationSucceeds
    <3> QED BY <3>2 DEF Inv, SlotsSuffice, AllocationSucceeds
  <2>2. CASE \/ load_code \/ (\E v \in Val : load_args(v)) \/ load_syscall_page
    <3>1. Len(paddrs) \in Nat
      <4>1. paddrs \in Seq(Page) BY DEF Inv, TypeOK
      <4> QED BY <4>1
    <3> QED BY <2>1, <2>2, <3>1, Sizes
            DEF load_code, load_args, load_syscall_page, APPS_ARG
  <2>3. CASE ~ \/ load_code \/ (\E v \in Val : load_args(v)) \/ load_syscall_page
    <3>1. UNCHANGED fatal
      BY <2>3 DEF Next, vars, store, push, proc_yield, msgcpy, Dispatch, elf_load,
                  load_read, proc_set_ready, proc_free
    <3> QED BY <3>1 DEF AllocationSucceeds
  <2> QED BY <2>2, <2>3
<1> QED BY <1>1, <1>2, Invariance, PTL DEF Spec

-----------------------------------------------------------------------------
(***************************************************************************)
(* The memory layer implements PrivateMemory.                              *)
(***************************************************************************)
\* The private page of slot i of process r.
Frame(r, i) == app_pages[r][i].private_addr

\* Slot i maps address i, two slots never map the same page, and a process
\* that is loaded has a page at every address.
RowsInOrder ==
    /\ \A r \in Row, i \in Addr :
          Frame(r, i) # NULL => app_pages[r][i].exec_addr = i
    /\ \A r \in Row, i, j \in Addr :
          i # j /\ Frame(r, i) = Frame(r, j) => Frame(r, i) = NULL
    /\ \A r \in Live, i \in Addr : Frame(r, i) # NULL

\* load_app fills the pages that it has mapped, and nobody writes to the page
\* of system call arguments before the process runs.
LoadInOrder ==
    loading # 0 =>
       /\ \A k \in 1 .. Len(paddrs) : paddrs[k] = Frame(loading, k)
       /\ Len(paddrs) = SYSCALL_ARG => content[Frame(loading, SYSCALL_ARG)] = 0

\* A process that has run is not set ready again.
RunsOnce == ready \cap started = {}

\* The inductive invariant.
IsolationInv == Inv /\ RowsInOrder /\ LoadInOrder /\ RunsOnce

-----------------------------------------------------------------------------
(***************************************************************************)
(* The switch.                                                             *)
(***************************************************************************)
\* What process p has at the exec addresses, in the memory m of a switch.
Image(m, p) ==
    [a \in Addr |-> IF p = m.vm THEN m.exec[a] ELSE m.content[Frame(p, a)]]

\* The slots of a process that is loaded hold pages.
LEMMA FrameIsPage ==
    ASSUME IsolationInv, NEW r \in Row, NEW i \in Addr, Frame(r, i) # NULL
    PROVE  Frame(r, i) \in Page
<1>1. app_pages[r][i] \in Mapping BY DEF IsolationInv, Inv, TypeOK
<1> QED BY <1>1 DEF Mapping, Frame

\* A process that is loaded has a row of pages.
LEMMA LiveFrames ==
    ASSUME IsolationInv, NEW r \in Live
    PROVE  /\ r \in Row /\ r \in Pid /\ r # 0
           /\ Mapped(r) = Addr
           /\ \A i \in Addr : Frame(r, i) \in Page
           /\ \A i \in Addr : app_pages[r][i].exec_addr = i
<1>1. r \in Row /\ r # 0 BY DEF IsolationInv, Inv, LiveInRow
<1>2. r \in Pid BY DEF IsolationInv, Inv, TypeOK, Live
<1>3. \A i \in Addr : Frame(r, i) # NULL BY DEF IsolationInv, RowsInOrder
<1>4. \A i \in Addr : Frame(r, i) \in Page BY <1>1, <1>3, FrameIsPage
<1>5. \A i \in Addr : app_pages[r][i].exec_addr = i
  BY <1>1, <1>3 DEF IsolationInv, RowsInOrder
<1>6. Mapped(r) = Addr BY <1>3 DEF Mapped, Frame
<1> QED BY <1>1, <1>2, <1>4, <1>5, <1>6

\* No two slots hold the same page.
LEMMA FramesApart ==
    ASSUME IsolationInv, NEW r \in Row, NEW i \in Addr,
           NEW s \in Row, NEW j \in Addr, Frame(r, i) # NULL,
           Frame(r, i) = Frame(s, j)
    PROVE  r = s /\ i = j
BY DEF IsolationInv, Inv, NotShared, RowsInOrder, Frame

\* memcopy_helper(p, 0) writes the k-th exec address to the k-th page of p and
\* nothing else.
LEMMA CopyOutFacts ==
    ASSUME IsolationInv, NEW m \in MemoryRecord, NEW p \in Live
    PROVE  /\ CopyOut(m, p) \in MemoryRecord
           /\ CopyOut(m, p).vm = m.vm /\ CopyOut(m, p).exec = m.exec
           /\ \A i \in Addr : CopyOut(m, p).content[Frame(p, i)] = m.exec[i]
           /\ \A q \in Page : (\A i \in Addr : Frame(p, i) # q) =>
                 CopyOut(m, p).content[q] = m.content[q]
<1> DEFINE slot(q) == CHOOSE i \in Mapped(p) : app_pages[p][i].private_addr = q
           c == [q \in Page |->
                   IF \E i \in Mapped(p) : app_pages[p][i].private_addr = q
                   THEN m.exec[app_pages[p][slot(q)].exec_addr]
                   ELSE m.content[q]]
<1>1. /\ p \in Row /\ Mapped(p) = Addr /\ \A i \in Addr : Frame(p, i) \in Page
      /\ \A i \in Addr : app_pages[p][i].exec_addr = i
  BY LiveFrames
<1>2. CopyOut(m, p) \in MemoryRecord
  BY <1>1, CopyOutType DEF IsolationInv, Inv
<1>3. CopyOut(m, p) = [m EXCEPT !.content = c] BY DEF CopyOut
<1>4. ASSUME NEW i \in Addr PROVE c[Frame(p, i)] = m.exec[i]
  <2>1. slot(Frame(p, i)) \in Addr /\ Frame(p, slot(Frame(p, i))) = Frame(p, i)
    BY <1>1 DEF Frame
  <2>2. Frame(p, i) # NULL BY <1>1, Sizes
  <2>3. slot(Frame(p, i)) = i
    <3> DEFINE s == slot(Frame(p, i))
    <3>1. s \in Addr /\ Frame(p, i) = Frame(p, s) BY <2>1
    <3> HIDE DEF s
    <3>2. i = s BY <1>1, <2>2, <3>1, FramesApart
    <3> QED BY <3>2 DEF s
  <2>4. \E k \in Mapped(p) : app_pages[p][k].private_addr = Frame(p, i)
    BY <1>1 DEF Frame
  <2>5. c[Frame(p, i)] = m.exec[app_pages[p][slot(Frame(p, i))].exec_addr]
    BY <1>1, <2>4
  <2> HIDE DEF c, slot
  <2> QED BY <1>1, <2>3, <2>5
<1>5. ASSUME NEW q \in Page, \A i \in Addr : Frame(p, i) # q
      PROVE  c[q] = m.content[q]
  <2>1. ~ \E i \in Mapped(p) : app_pages[p][i].private_addr = q
    BY <1>5 DEF Mapped, Frame
  <2> QED BY <2>1
<1> HIDE DEF c
<1>6. CopyOut(m, p).content = c /\ CopyOut(m, p).vm = m.vm
      /\ CopyOut(m, p).exec = m.exec
  BY <1>3 DEF MemoryRecord
<1> QED BY <1>2, <1>4, <1>5, <1>6

\* memcopy_helper(p, 1) fills the exec addresses from the pages of p.
LEMMA CopyInFacts ==
    ASSUME IsolationInv, NEW m \in MemoryRecord, NEW p \in Live
    PROVE  /\ CopyIn(m, p) \in MemoryRecord
           /\ CopyIn(m, p).content = m.content
           /\ \A a \in Addr : CopyIn(m, p).exec[a] = m.content[Frame(p, a)]
<1> DEFINE slot(a) == CHOOSE i \in Mapped(p) : app_pages[p][i].exec_addr = a
           e == [a \in Addr |->
                   IF \E i \in Mapped(p) : app_pages[p][i].exec_addr = a
                   THEN m.content[app_pages[p][slot(a)].private_addr]
                   ELSE m.exec[a]]
<1>1. /\ p \in Row /\ Mapped(p) = Addr
      /\ \A i \in Addr : app_pages[p][i].exec_addr = i
  BY LiveFrames
<1>2. CopyIn(m, p) \in MemoryRecord
  BY <1>1, CopyInType DEF IsolationInv, Inv
<1>3. CopyIn(m, p) = [m EXCEPT !.exec = e] BY DEF CopyIn
<1>4. ASSUME NEW a \in Addr PROVE e[a] = m.content[Frame(p, a)]
  <2>1. slot(a) \in Addr /\ app_pages[p][slot(a)].exec_addr = a BY <1>1
  <2>2. slot(a) = a
    <3> HIDE DEF slot
    <3> QED BY <1>1, <2>1
  <2>3. e[a] = m.content[app_pages[p][slot(a)].private_addr] BY <1>1
  <2> HIDE DEF e, slot
  <2> QED BY <2>2, <2>3 DEF Frame
<1> HIDE DEF e
<1>5. CopyIn(m, p).exec = e /\ CopyIn(m, p).content = m.content
  BY <1>3 DEF MemoryRecord
<1> QED BY <1>2, <1>4, <1>5

\* A switch from one process to another leaves the memory of every process as
\* it was, and every page that belongs to none of those that are loaded.
LEMMA SwitchKeepsImages ==
    ASSUME IsolationInv, NEW m \in MemoryRecord, m.vm \in Live, NEW p \in Live
    PROVE  /\ soft_tlb_switch(m, p) \in MemoryRecord
           /\ soft_tlb_switch(m, p).vm = p
           /\ \A r \in Live : Image(soft_tlb_switch(m, p), r) = Image(m, r)
           /\ \A q \in Page : (\A r \in Live, i \in Addr : Frame(r, i) # q) =>
                 soft_tlb_switch(m, p).content[q] = m.content[q]
<1>1. CASE p = m.vm BY <1>1 DEF soft_tlb_switch
<1>2. CASE p # m.vm
  <2> DEFINE o == CopyOut(m, m.vm)
             n == CopyIn(o, p)
             t == soft_tlb_switch(m, p)
  <2>1. t = [n EXCEPT !.vm = p] BY <1>2 DEF soft_tlb_switch
  <2>2. /\ o \in MemoryRecord
        /\ \A i \in Addr : o.content[Frame(m.vm, i)] = m.exec[i]
        /\ \A q \in Page : (\A i \in Addr : Frame(m.vm, i) # q) =>
              o.content[q] = m.content[q]
    BY CopyOutFacts
  <2> HIDE DEF o
  <2>3. /\ n \in MemoryRecord /\ n.content = o.content
        /\ \A a \in Addr : n.exec[a] = o.content[Frame(p, a)]
    BY <2>2, CopyInFacts
  <2> HIDE DEF n
  <2>4. p \in Pid BY LiveFrames
  <2>5. /\ t \in MemoryRecord /\ t.vm = p /\ t.exec = n.exec
        /\ t.content = o.content
    BY <2>1, <2>3, <2>4 DEF MemoryRecord
  <2> HIDE DEF t
  <2>6. ASSUME NEW r \in Live, NEW a \in Addr, r # m.vm
        PROVE  o.content[Frame(r, a)] = m.content[Frame(r, a)]
    <3>1. r \in Row /\ m.vm \in Row /\ Frame(r, a) \in Page BY LiveFrames
    <3>2. Frame(r, a) # NULL BY <3>1, Sizes
    <3>3. \A i \in Addr : Frame(m.vm, i) # Frame(r, a)
      BY <2>6, <3>1, <3>2, FramesApart
    <3> QED BY <2>2, <3>1, <3>3
  <2>7. ASSUME NEW r \in Live, NEW a \in Addr
        PROVE  Image(t, r)[a] = Image(m, r)[a]
    <3>1. CASE r = p
      BY <1>2, <2>3, <2>5, <2>6, <3>1 DEF Image
    <3>2. CASE r # p /\ r = m.vm BY <2>2, <2>5, <3>2 DEF Image
    <3>3. CASE r # p /\ r # m.vm BY <2>5, <2>6, <3>3 DEF Image
    <3> QED BY <3>1, <3>2, <3>3
  <2>8. ASSUME NEW r \in Live PROVE Image(t, r) = Image(m, r)
    BY <2>7 DEF Image
  <2>9. ASSUME NEW q \in Page, \A r \in Live, i \in Addr : Frame(r, i) # q
        PROVE  t.content[q] = m.content[q]
    BY <2>2, <2>5, <2>9
  <2> QED BY <2>5, <2>8, <2>9 DEF t
<1> QED BY <1>1, <1>2

\* What the private pages and the exec addresses hold, per process.
Pages(r) == Image(Memory, r)

\* The switch of proc_yield, with the memory it starts from.
LEMMA YieldFacts ==
    ASSUME IsolationInv, NEW p \in Pid, proc_yield(p)
    PROVE  \E m \in MemoryRecord :
              /\ m.vm = p /\ Dispatch(p) /\ SetMemory(m)
              /\ \A r \in Live : Image(m, r) = Pages(r)
              /\ \A q \in Page : (\A r \in Live, i \in Addr : Frame(r, i) # q) =>
                    m.content[q] = content[q]
<1> DEFINE m == soft_tlb_switch(Memory, p)
<1>1. Memory \in MemoryRecord BY MemoryType DEF IsolationInv
<1>2. Memory.vm \in Live /\ Memory.content = content
  BY DEF Memory, IsolationInv, Inv, ExecIsCurrent, LiveInRow, Live
<1>3. p \in Live BY DEF proc_yield, Dispatch, Live
<1>4. /\ m \in MemoryRecord /\ m.vm = p
      /\ \A r \in Live : Image(m, r) = Pages(r)
      /\ \A q \in Page : (\A r \in Live, i \in Addr : Frame(r, i) # q) =>
            m.content[q] = content[q]
  BY <1>1, <1>2, <1>3, SwitchKeepsImages DEF Pages
<1>5. Dispatch(p) /\ SetMemory(m) BY DEF proc_yield
<1> HIDE DEF m
<1> QED BY <1>4, <1>5

\* The three switches of msgcpy: the message is at the receiver, and nothing
\* else has changed.
LEMMA MsgcpyFacts ==
    ASSUME IsolationInv, NEW src \in Pid, NEW dst \in Pid, NEW p \in Pid,
           msgcpy(src, dst, p)
    PROVE  \E m \in MemoryRecord :
              /\ m.vm = p /\ Dispatch(p) /\ SetMemory(m)
              /\ \A r \in Live \ {dst} : Image(m, r) = Pages(r)
              /\ Image(m, dst) = [Pages(dst) EXCEPT
                                    ![SYSCALL_ARG] = Pages(src)[SYSCALL_ARG]]
              /\ \A q \in Page : (\A r \in Live, i \in Addr : Frame(r, i) # q) =>
                    m.content[q] = content[q]
<1> DEFINE atSrc == soft_tlb_switch(Memory, src)
           atDst == soft_tlb_switch(atSrc, dst)
           copied == [atDst EXCEPT !.exec[SYSCALL_ARG] = atSrc.exec[SYSCALL_ARG]]
           m == soft_tlb_switch(copied, p)
           Nobody(q) == \A r \in Live, i \in Addr : Frame(r, i) # q
<1>1. Memory \in MemoryRecord BY MemoryType DEF IsolationInv
<1>2. Memory.vm \in Live /\ Memory.content = content
  BY DEF Memory, IsolationInv, Inv, ExecIsCurrent, LiveInRow, Live
<1>3. src \in Live /\ dst \in Live /\ p \in Live /\ src # dst
  BY DEF msgcpy, Dispatch, Live
<1>4. /\ atSrc \in MemoryRecord /\ atSrc.vm = src
      /\ \A r \in Live : Image(atSrc, r) = Pages(r)
      /\ \A q \in Page : Nobody(q) => atSrc.content[q] = content[q]
  BY <1>1, <1>2, <1>3, SwitchKeepsImages DEF Pages
<1> HIDE DEF atSrc
<1>5. /\ atDst \in MemoryRecord /\ atDst.vm = dst
      /\ \A r \in Live : Image(atDst, r) = Image(atSrc, r)
      /\ \A q \in Page : Nobody(q) => atDst.content[q] = atSrc.content[q]
  BY <1>3, <1>4, SwitchKeepsImages
<1> HIDE DEF atDst
<1>6. /\ copied \in MemoryRecord /\ copied.vm = dst
      /\ copied.content = atDst.content
      /\ copied.exec = [atDst.exec EXCEPT ![SYSCALL_ARG] = atSrc.exec[SYSCALL_ARG]]
  BY <1>4, <1>5, Sizes DEF MemoryRecord
<1> HIDE DEF copied
<1>7. /\ m \in MemoryRecord /\ m.vm = p
      /\ \A r \in Live : Image(m, r) = Image(copied, r)
      /\ \A q \in Page : Nobody(q) => m.content[q] = copied.content[q]
  BY <1>3, <1>6, SwitchKeepsImages
<1>8. Dispatch(p) /\ SetMemory(m) BY DEF msgcpy, atSrc, atDst, copied
<1> HIDE DEF m
<1>9. ASSUME NEW r \in Live \ {dst} PROVE Image(m, r) = Pages(r)
  <2>1. Image(copied, r) = Image(atDst, r) BY <1>5, <1>6 DEF Image
  <2> QED BY <1>4, <1>5, <1>7, <2>1
<1>10. Image(m, dst) = [Pages(dst) EXCEPT ![SYSCALL_ARG] = Pages(src)[SYSCALL_ARG]]
  <2>1. atSrc.exec[SYSCALL_ARG] = Pages(src)[SYSCALL_ARG]
    <3>1. Image(atSrc, src)[SYSCALL_ARG] = atSrc.exec[SYSCALL_ARG]
      BY <1>4, Sizes DEF Image
    <3> QED BY <1>3, <1>4, <3>1
  <2>2. Image(atDst, dst) = atDst.exec
    BY <1>5 DEF Image, MemoryRecord
  <2>3. Image(copied, dst) = copied.exec
    BY <1>6 DEF Image, MemoryRecord
  <2>4. Image(atDst, dst) = Pages(dst) BY <1>3, <1>4, <1>5
  <2> QED BY <1>3, <1>6, <1>7, <2>1, <2>2, <2>3, <2>4
<1>11. \A q \in Page : Nobody(q) => m.content[q] = content[q]
  BY <1>4, <1>5, <1>6, <1>7
<1> QED BY <1>7, <1>8, <1>9, <1>10, <1>11

-----------------------------------------------------------------------------
(***************************************************************************)
(* The invariant.                                                          *)
(***************************************************************************)
\* The state grass main() leaves satisfies the invariant.
LEMMA IsolationInit == Init => IsolationInv
<1> SUFFICES ASSUME Init PROVE IsolationInv OBVIOUS
<1> USE Sizes
<1>1. Inv BY InvInit
<1>2. \A r \in Row, i \in Addr :
         /\ Frame(r, i) = IF r = GPID_PROCESS THEN i - 1 ELSE NULL
         /\ r = GPID_PROCESS => app_pages[r][i].exec_addr = i
  BY DEF Init, EmptyRow, Frame
<1>3. RowsInOrder
  <2>1. Live = {GPID_PROCESS} BY DEF Init, Live
  <2>2. \A i \in Addr : i \in Nat /\ i - 1 # NULL BY DEF Addr
  <2> QED BY <1>2, <2>1, <2>2 DEF RowsInOrder, Addr
<1>4. LoadInOrder /\ RunsOnce BY DEF Init, LoadInOrder, RunsOnce
<1> QED BY <1>1, <1>3, <1>4 DEF IsolationInv

\* The rows stay in order when they and the set of processes are unchanged.
LEMMA RowsKept ==
    ASSUME IsolationInv, app_pages' = app_pages, Live' = Live
    PROVE  RowsInOrder'
BY DEF IsolationInv, RowsInOrder, Frame

\* The page of system call arguments of the process that is being loaded is
\* not one of a process that is loaded.
LEMMA LoadingApart ==
    ASSUME IsolationInv, loading # 0, NEW k \in Addr, k <= Len(paddrs)
    PROVE  /\ loading \in Row /\ Frame(loading, k) \in Page
           /\ \A r \in Live, i \in Addr : Frame(r, i) # Frame(loading, k)
<1>1. Len(paddrs) \in Nat
  <2>1. paddrs \in Seq(Page) BY DEF IsolationInv, Inv, TypeOK
  <2> QED BY <2>1
<1>2. paddrs # <<>> BY <1>1 DEF Addr
<1>3. loading \in Row \ Live BY <1>2 DEF IsolationInv, Inv, LoadedSoFar
<1>4. Frame(loading, k) # NULL
  BY <1>3 DEF IsolationInv, Inv, LoadedSoFar, Frame
<1>5. \A r \in Live, i \in Addr : Frame(r, i) # Frame(loading, k)
  BY <1>3, <1>4, FramesApart, LiveFrames
<1> QED BY <1>3, <1>4, <1>5, FrameIsPage

\* A trap that changes only pages of processes that are loaded preserves the
\* invariant.
LEMMA IsolationDispatch ==
    ASSUME IsolationInv, NEW p \in Pid, Dispatch(p),
           NEW m \in MemoryRecord, m.vm = p, SetMemory(m),
           \A q \in Page : (\A r \in Live, i \in Addr : Frame(r, i) # q) =>
              m.content[q] = content[q]
    PROVE  IsolationInv'
<1>1. Inv' BY InvDispatch DEF IsolationInv
<1>2. Live' = Live BY DEF Dispatch, Live
<1>3. RowsInOrder' BY <1>2, RowsKept DEF Dispatch
<1>4. LoadInOrder'
  <2> SUFFICES ASSUME loading # 0
               PROVE  /\ \A k \in 1 .. Len(paddrs) : paddrs[k] = Frame(loading, k)
                      /\ Len(paddrs) = SYSCALL_ARG =>
                            m.content[Frame(loading, SYSCALL_ARG)] = 0
    BY DEF LoadInOrder, Dispatch, LoadVars, SetMemory, Frame
  <2>1. ASSUME Len(paddrs) = SYSCALL_ARG
        PROVE  m.content[Frame(loading, SYSCALL_ARG)] = 0
    <3>1. SYSCALL_ARG \in Addr /\ SYSCALL_ARG <= Len(paddrs)
      BY <2>1, Sizes DEF Addr
    <3>2. content[Frame(loading, SYSCALL_ARG)] = 0
      BY <2>1 DEF IsolationInv, LoadInOrder
    <3> QED BY <3>1, <3>2, LoadingApart
  <2> QED BY <2>1 DEF IsolationInv, LoadInOrder
<1>5. RunsOnce' BY DEF Dispatch, IsolationInv, RunsOnce
<1> QED BY <1>1, <1>3, <1>4, <1>5 DEF IsolationInv

\* One more page for the process that is being loaded keeps its row in order.
LEMMA IsolationMapPage ==
    ASSUME IsolationInv, Inv', InSysProc, loading # 0, NEW a \in Addr,
           a = Len(paddrs) + 1, NEW v \in Val, MapPage(a, v), v = 0 \/ a # SYSCALL_ARG
    PROVE  /\ IsolationInv'
           /\ \A r \in Live, i \in Addr : Frame(r, i)' = Frame(r, i)
           /\ \A r \in Live, i \in Addr :
                 content'[Frame(r, i)] = content[Frame(r, i)]
<1> USE Sizes
<1>0. Len(paddrs) \in Nat
  <2>1. paddrs \in Seq(Page) BY DEF IsolationInv, Inv, TypeOK
  <2> QED BY <2>1
<1>1. Live' = Live /\ RunsOnce' /\ loading' = loading
  BY DEF MapPage, ProcVars, Live, IsolationInv, RunsOnce
<1>2. CASE UNCHANGED <<bitmap, content, app_pages, paddrs>>
  <2>1. RowsInOrder' BY <1>1, <1>2, RowsKept
  <2>2. LoadInOrder' BY <1>1, <1>2 DEF IsolationInv, LoadInOrder, Frame
  <2> QED BY <1>1, <1>2, <2>1, <2>2 DEF IsolationInv, Frame
<1>3. ASSUME NEW q \in Free, loading \in Row, FirstOf(Free, q), pmalloc(q, v),
             soft_tlb_map(loading, a, q), paddrs' = Append(paddrs, q)
      PROVE  /\ IsolationInv'
             /\ \A r \in Live, i \in Addr : Frame(r, i)' = Frame(r, i)
             /\ \A r \in Live, i \in Addr :
                   content'[Frame(r, i)] = content[Frame(r, i)]
  <2> DEFINE slots == Addr \ Mapped(loading)
             new == [private_addr |-> q, exec_addr |-> a]
  <2>1. q \in Page /\ q \notin bitmap /\ q # NULL BY DEF Free
  <2>2. loading \in Row \ Live BY <1>3 DEF IsolationInv, Inv, LoadedSoFar
  <2>3. \A i \in Addr : i \in slots <=> ~ (i <= Len(paddrs))
    BY <2>2 DEF IsolationInv, Inv, LoadedSoFar, Mapped
  <2>4. a \in slots /\ \A i \in slots : a <= i BY <1>0, <2>3 DEF Addr
  <2>5. app_pages' = [app_pages EXCEPT ![loading] = [@ EXCEPT ![a] = new]]
    <3>1. slots # {} BY <2>4
    <3>2. PICK i \in slots :
             /\ FirstOf(slots, i)
             /\ app_pages' = [app_pages EXCEPT ![loading] = [@ EXCEPT ![i] = new]]
      BY <1>3, <3>1 DEF soft_tlb_map
    <3>3. i = a BY <2>4, <3>2 DEF FirstOf, Addr
    <3> QED BY <3>2, <3>3
  <2>6. /\ app_pages'[loading][a] = new
        /\ \A r \in Row, i \in Addr : r # loading \/ i # a =>
              app_pages'[r][i] = app_pages[r][i]
    <3>1. app_pages \in [Row -> [Addr -> Mapping]] BY DEF IsolationInv, Inv, TypeOK
    <3> HIDE DEF new
    <3> QED BY <1>3, <2>5, <3>1
  <2>7. /\ Frame(loading, a)' = q
        /\ \A r \in Row, i \in Addr : r # loading \/ i # a =>
              Frame(r, i)' = Frame(r, i)
    <3>1. app_pages'[loading][a].private_addr = q BY <2>6
    <3>2. Frame(loading, a)' = q BY <1>1, <3>1 DEF Frame
    <3>3. ASSUME NEW r \in Row, NEW i \in Addr, r # loading \/ i # a
          PROVE  Frame(r, i)' = Frame(r, i)
      BY <2>6, <3>3 DEF Frame
    <3> QED BY <3>2, <3>3
  <2>8. \A r \in Row, i \in Addr : Frame(r, i) # q
    BY <2>1 DEF IsolationInv, Inv, InUse, Frame
  <2>9. RowsInOrder'
    <3>1. \A r \in Row, i \in Addr :
             Frame(r, i)' # NULL => app_pages'[r][i].exec_addr = i
      BY <2>6, <2>7 DEF IsolationInv, RowsInOrder
    <3>2. ASSUME NEW r \in Row, NEW i \in Addr, NEW j \in Addr, i # j,
                 Frame(r, i)' = Frame(r, j)'
          PROVE  Frame(r, i)' = NULL
      <4>1. CASE r = loading /\ i = a BY <1>1, <2>7, <2>8, <3>2, <4>1
      <4>2. CASE r = loading /\ j = a BY <1>1, <2>7, <2>8, <3>2, <4>2
      <4>3. CASE r # loading \/ (i # a /\ j # a)
        BY <2>7, <3>2, <4>3 DEF IsolationInv, RowsInOrder
      <4> QED BY <4>1, <4>2, <4>3
    <3>3. ASSUME NEW r \in Live, NEW i \in Addr PROVE Frame(r, i)' # NULL
      <4>1. r \in Row /\ Frame(r, i) # NULL
        BY LiveFrames DEF IsolationInv, RowsInOrder
      <4> QED BY <2>2, <2>7, <4>1
    <3> QED BY <1>1, <3>1, <3>2, <3>3 DEF RowsInOrder, Frame
  <2>10. LoadInOrder'
    <3>1. paddrs \in Seq(Page) BY DEF IsolationInv, Inv, TypeOK
    <3>2. /\ Len(paddrs') = a /\ paddrs'[a] = q
          /\ \A k \in 1 .. Len(paddrs) : paddrs'[k] = paddrs[k]
      BY <1>0, <1>3, <2>1, <3>1
    <3>3. ASSUME NEW k \in 1 .. a PROVE paddrs'[k] = Frame(loading, k)'
      <4>1. CASE k = a BY <2>7, <3>2, <4>1
      <4>2. CASE k # a
        <5>1. k \in 1 .. Len(paddrs) /\ k \in Addr BY <1>0, <4>2 DEF Addr
        <5>2. paddrs[k] = Frame(loading, k)
          BY <5>1 DEF IsolationInv, LoadInOrder
        <5>3. Frame(loading, k)' = Frame(loading, k)
          BY <1>1, <2>2, <2>6, <4>2, <5>1 DEF Frame
        <5> QED BY <3>2, <5>1, <5>2, <5>3
      <4> QED BY <4>1, <4>2
    <3>4. ASSUME a = SYSCALL_ARG PROVE content'[Frame(loading, a)'] = 0
      BY <1>3, <2>1, <2>7, <3>4 DEF pmalloc, IsolationInv, Inv, TypeOK
    <3> QED BY <1>1, <3>2, <3>3, <3>4 DEF LoadInOrder, Frame
  <2>11. \A r \in Live, i \in Addr : Frame(r, i)' = Frame(r, i)
    BY <2>2, <2>7, LiveFrames
  <2>12. ASSUME NEW r \in Live, NEW i \in Addr
         PROVE  content'[Frame(r, i)] = content[Frame(r, i)]
    <3>1. r \in Row /\ Frame(r, i) \in Page /\ Frame(r, i) # q
      BY <2>8, LiveFrames
    <3> QED BY <1>3, <3>1 DEF pmalloc, IsolationInv, Inv, TypeOK
  <2> QED BY <1>1, <2>9, <2>10, <2>11, <2>12 DEF IsolationInv
<1> QED BY <1>2, <1>3 DEF MapPage

\* A page that load_app fills belongs to the process that is being loaded.
LEMMA LoadReadFacts ==
    ASSUME IsolationInv, NEW k \in 1 .. CODE_PAGES, NEW v \in Val, load_read(k, v)
    PROVE  /\ LoadInOrder'
           /\ \A r \in Live, i \in Addr :
                 content'[Frame(r, i)] = content[Frame(r, i)]
<1> USE Sizes
<1>1. /\ loading # 0 /\ Len(paddrs) = CODE_PAGES
      /\ content' = [content EXCEPT ![paddrs[k]] = v]
      /\ UNCHANGED <<app_pages, loading, paddrs>>
  BY DEF load_read
<1>2. k \in Addr /\ k <= Len(paddrs) /\ k \in 1 .. Len(paddrs)
  BY <1>1 DEF Addr
<1>3. paddrs[k] = Frame(loading, k) BY <1>1, <1>2 DEF IsolationInv, LoadInOrder
<1>4. \A r \in Live, i \in Addr : Frame(r, i) # Frame(loading, k)
  BY <1>1, <1>2, LoadingApart
<1>5. ASSUME NEW r \in Live, NEW i \in Addr
      PROVE  content'[Frame(r, i)] = content[Frame(r, i)]
  <2>1. Frame(r, i) \in Page BY LiveFrames
  <2> QED BY <1>1, <1>3, <1>4, <2>1 DEF IsolationInv, Inv, TypeOK
<1>6. LoadInOrder'
  <2>1. Len(paddrs) # SYSCALL_ARG BY <1>1
  <2> QED BY <1>1, <2>1 DEF IsolationInv, LoadInOrder, Frame
<1> QED BY <1>5, <1>6

\* A process that has been loaded is complete when it is set ready.
LEMMA SetReadyFacts ==
    ASSUME IsolationInv, proc_set_ready
    PROVE  /\ loading # 0 /\ loading \in Row \ Live /\ loading \in Pid
           /\ Live' = Live \cup {loading}
           /\ \A i \in Addr : Frame(loading, i) \in Page
           /\ content[Frame(loading, SYSCALL_ARG)] = 0
<1> USE Sizes
<1>1. loading # 0 /\ Len(paddrs) = SYSCALL_ARG BY DEF proc_set_ready
<1>2. \A i \in Addr : i <= Len(paddrs) BY <1>1 DEF Addr
<1>3. loading \in Row /\ \A i \in Addr : Frame(loading, i) \in Page
  BY <1>1, <1>2, LoadingApart
<1>4. loading \notin Live BY <1>1 DEF IsolationInv, Inv, LoadedSoFar
<1>5. loading \in Pid
  <2>1. loading \in 0 .. LastPid BY DEF IsolationInv, Inv, TypeOK
  <2> QED BY <1>1, <2>1 DEF Pid
<1>6. Live' = Live \cup {loading} BY DEF proc_set_ready, ProcVars, Live
<1>7. content[Frame(loading, SYSCALL_ARG)] = 0
  BY <1>1 DEF IsolationInv, LoadInOrder
<1> QED BY <1>1, <1>3, <1>4, <1>5, <1>6, <1>7

\* proc_free takes the rows of the processes it frees and of no other.
LEMMA FreeFacts ==
    ASSUME IsolationInv, NEW P \in SUBSET (Users \cap Row), proc_free(P)
    PROVE  /\ Live' = Live \ P /\ loading' = 0 /\ GPID_PROCESS \notin P
           /\ \A r \in Row, i \in Addr :
                 app_pages'[r][i] =
                    IF r \in P THEN [private_addr |-> NULL, exec_addr |-> NULL]
                    ELSE app_pages[r][i]
<1>1. Live' = Live \ P /\ loading' = 0 BY DEF proc_free, Live
<1>2. GPID_PROCESS \notin P BY Sizes DEF Users
<1>3. soft_tlb_free(P) BY DEF proc_free
<1>4. \A r \in Row, i \in Addr :
         app_pages'[r][i] =
            IF r \in P THEN [private_addr |-> NULL, exec_addr |-> NULL]
            ELSE app_pages[r][i]
  BY <1>3 DEF soft_tlb_free, EmptyRow
<1> QED BY <1>1, <1>2, <1>4

\* proc_free preserves the invariant.
LEMMA IsolationFree ==
    ASSUME IsolationInv, Inv', NEW P \in SUBSET (Users \cap Row), proc_free(P)
    PROVE  IsolationInv'
<1>1. /\ Live' = Live \ P /\ loading' = 0
      /\ \A r \in Row, i \in Addr :
            app_pages'[r][i] =
               IF r \in P THEN [private_addr |-> NULL, exec_addr |-> NULL]
               ELSE app_pages[r][i]
  BY FreeFacts
<1>2. ASSUME NEW r \in Row, NEW i \in Addr
      PROVE  /\ r \in P => Frame(r, i)' = NULL
             /\ r \notin P => app_pages'[r][i] = app_pages[r][i]
             /\ r \notin P => Frame(r, i)' = Frame(r, i)
  BY <1>1 DEF Frame
<1>3. \A r \in Row, i \in Addr :
         Frame(r, i)' # NULL => app_pages'[r][i].exec_addr = i
  BY <1>2 DEF IsolationInv, RowsInOrder
<1>4. \A r \in Row, i, j \in Addr :
         i # j /\ Frame(r, i)' = Frame(r, j)' => Frame(r, i)' = NULL
  BY <1>2 DEF IsolationInv, RowsInOrder
<1>5. \A r \in Live \ P, i \in Addr : Frame(r, i)' # NULL
  <2> SUFFICES ASSUME NEW r \in Live \ P, NEW i \in Addr PROVE Frame(r, i)' # NULL
    OBVIOUS
  <2>1. r \in Row /\ Frame(r, i) # NULL
    BY LiveFrames DEF IsolationInv, RowsInOrder
  <2> QED BY <1>2, <2>1
<1>6. RowsInOrder' BY <1>1, <1>3, <1>4, <1>5 DEF RowsInOrder, Frame
<1>7. LoadInOrder' BY <1>1 DEF LoadInOrder
<1>8. RunsOnce' BY DEF proc_free, IsolationInv, RunsOnce
<1> QED BY <1>6, <1>7, <1>8 DEF IsolationInv

\* The page that load_code, load_args or load_syscall_page maps.
Loads(a, v) ==
    /\ InSysProc /\ loading # 0 /\ a = Len(paddrs) + 1
    /\ MapPage(a, v) /\ (v = 0 \/ a # SYSCALL_ARG)

\* The three of them map one more page.
LEMMA LoadSteps ==
    ASSUME IsolationInv,
           load_code \/ (\E v \in Val : load_args(v)) \/ load_syscall_page
    PROVE  \E a \in Addr, v \in Val : Loads(a, v)
<1> USE Sizes
<1>0. Len(paddrs) \in Nat
  <2>1. paddrs \in Seq(Page) BY DEF IsolationInv, Inv, TypeOK
  <2> QED BY <2>1
<1>1. CASE load_code
  <2>1. Len(paddrs) + 1 \in Addr /\ Loads(Len(paddrs) + 1, 0)
    BY <1>0, <1>1 DEF load_code, Loads, Addr
  <2> QED BY <2>1
<1>2. CASE \E v \in Val : load_args(v)
  <2>1. PICK v \in Val : load_args(v) BY <1>2
  <2>2. APPS_ARG \in Addr /\ Loads(APPS_ARG, v)
    BY <2>1 DEF load_args, Loads, APPS_ARG, Addr
  <2> QED BY <2>2
<1>3. CASE load_syscall_page
  <2>1. SYSCALL_ARG \in Addr /\ Loads(SYSCALL_ARG, 0)
    BY <1>3 DEF load_syscall_page, Loads, APPS_ARG
  <2> QED BY <2>1
<1> QED BY <1>1, <1>2, <1>3

\* The invariant holds in every reachable state.
THEOREM IsolationInvariance == Spec => []IsolationInv
<1>1. Init => IsolationInv BY IsolationInit
<1>2. IsolationInv /\ Inv' /\ [Next]_vars => IsolationInv'
  <2> SUFFICES ASSUME IsolationInv, Inv', [Next]_vars PROVE IsolationInv' OBVIOUS
  <2> USE Sizes
  <2>1. CASE UNCHANGED vars
    <3>1. Live' = Live /\ RunsOnce' BY <2>1 DEF vars, Live, IsolationInv, RunsOnce
    <3>2. RowsInOrder' BY <2>1, <3>1, RowsKept DEF vars
    <3>3. LoadInOrder' BY <2>1 DEF vars, IsolationInv, LoadInOrder, Frame
    <3> QED BY <3>1, <3>2, <3>3 DEF IsolationInv
  <2>2. CASE \/ \E a \in Addr, v \in Val : store(a, v)
             \/ \E v \in Val : push(v)
    <3>1. UNCHANGED <<content, app_pages, ready, started, loading, paddrs>>
      BY <2>2 DEF store, push, LoadVars
    <3>2. Live' = Live /\ RunsOnce' BY <3>1 DEF Live, IsolationInv, RunsOnce
    <3>3. RowsInOrder' BY <3>1, <3>2, RowsKept
    <3>4. LoadInOrder' BY <3>1 DEF IsolationInv, LoadInOrder, Frame
    <3> QED BY <3>2, <3>3, <3>4 DEF IsolationInv
  <2>3. CASE \E p \in Pid : proc_yield(p)
    BY <2>3, YieldFacts, IsolationDispatch
  <2>4. CASE \E src, dst, p \in Pid : msgcpy(src, dst, p)
    BY <2>4, MsgcpyFacts, IsolationDispatch
  <2>5. CASE \E p \in Pid : elf_load(p)
    <3>1. UNCHANGED <<app_pages, ready, started>> /\ paddrs' = <<>>
      BY <2>5 DEF elf_load, ProcVars
    <3>2. Live' = Live /\ RunsOnce' BY <3>1 DEF Live, IsolationInv, RunsOnce
    <3>3. RowsInOrder' BY <3>1, <3>2, RowsKept
    <3>4. Len(paddrs') = 0 BY <3>1
    <3>5. LoadInOrder' BY <3>4 DEF LoadInOrder, Addr
    <3> QED BY <3>2, <3>3, <3>5 DEF IsolationInv
  <2>6. CASE load_code \/ (\E v \in Val : load_args(v)) \/ load_syscall_page
    <3>1. PICK a \in Addr, v \in Val : Loads(a, v) BY <2>6, LoadSteps
    <3> QED BY <3>1, IsolationMapPage DEF Loads
  <2>7. CASE \E k \in 1 .. CODE_PAGES, v \in Val : load_read(k, v)
    <3>1. UNCHANGED <<app_pages, ready, started>> BY <2>7 DEF load_read, ProcVars
    <3>2. Live' = Live /\ RunsOnce' BY <3>1 DEF Live, IsolationInv, RunsOnce
    <3>3. RowsInOrder' BY <3>1, <3>2, RowsKept
    <3>4. LoadInOrder' BY <2>7, LoadReadFacts
    <3> QED BY <3>2, <3>3, <3>4 DEF IsolationInv
  <2>8. CASE proc_set_ready
    <3>1. /\ loading \in Row \ Live /\ Live' = Live \cup {loading}
          /\ \A i \in Addr : Frame(loading, i) # NULL
      BY <2>8, SetReadyFacts
    <3>2. app_pages' = app_pages /\ loading' = 0 BY <2>8 DEF proc_set_ready
    <3>3. RowsInOrder'
      BY <3>1, <3>2 DEF IsolationInv, RowsInOrder, Frame
    <3>4. RunsOnce' BY <2>8, <3>1
      DEF proc_set_ready, ProcVars, Live, IsolationInv, RunsOnce
    <3>5. LoadInOrder' BY <3>2 DEF LoadInOrder
    <3> QED BY <3>3, <3>4, <3>5 DEF IsolationInv
  <2>9. CASE \E p \in Users \cap Row : proc_free({p})
    <3>1. PICK p \in Users \cap Row : proc_free({p}) BY <2>9
    <3>2. {p} \in SUBSET (Users \cap Row) OBVIOUS
    <3> QED BY <3>1, <3>2, IsolationFree
  <2>10. CASE proc_free((Users \cap Row) \cap (ready \cup started))
    <3>1. (Users \cap Row) \cap (ready \cup started) \in SUBSET (Users \cap Row)
      OBVIOUS
    <3> QED BY <2>10, <3>1, IsolationFree
  <2> QED BY <2>1, <2>2, <2>3, <2>4, <2>5, <2>6, <2>7, <2>8, <2>9, <2>10 DEF Next
<1>3. Spec => []Inv BY Invariance
<1> QED BY <1>1, <1>2, <1>3, PTL DEF Spec

-----------------------------------------------------------------------------
(***************************************************************************)
(* The refinement.                                                         *)
(***************************************************************************)
\* The stack of process r.
StackOf(r) ==
    IF r \in ready THEN 0 ELSE IF r = curr_pid THEN stack ELSE proc_stack[r]

\* The memory of process r.
Whole(r) == [l \in Loc |-> IF l = STACK THEN StackOf(r) ELSE Pages(r)[l]]

\* The locations are the exec addresses and the stack.
LEMMA Locations ==
    /\ STACK \in Loc /\ STACK \notin Addr /\ Addr \subseteq Loc
    /\ \A l \in Loc : l # STACK => l \in Addr
    /\ SYSCALL_ARG \in Loc /\ SYSCALL_ARG # STACK
BY Sizes DEF STACK, Loc, Addr

\* The refinement mapping, in terms of slots.
LEMMA MemoryMeans ==
    ASSUME IsolationInv
    PROVE  memory = [r \in Pid |-> IF r \in Live THEN Whole(r) ELSE <<>>]
<1>1. ASSUME NEW p \in Live, NEW l \in Loc
      PROVE  MemoryOf(p)[l] = Whole(p)[l]
  <2>1. CASE l = STACK BY <2>1 DEF MemoryOf, Whole, StackOf
  <2>2. CASE l # STACK
    <3>1. l \in Addr BY <2>2, Locations
    <3>2. Mapped(p) = Addr /\ \A i \in Addr : app_pages[p][i].exec_addr = i
      BY LiveFrames
    <3>3. PageAt(p, l) = Frame(p, l)
      <4> DEFINE s == CHOOSE i \in Mapped(p) : app_pages[p][i].exec_addr = l
      <4>1. s \in Mapped(p) /\ app_pages[p][s].exec_addr = l BY <3>1, <3>2
      <4>2. PageAt(p, l) = app_pages[p][s].private_addr BY DEF PageAt
      <4> HIDE DEF s
      <4> QED BY <3>2, <4>1, <4>2 DEF Frame
    <3>4. MemoryOf(p)[l] = IF p = curr_vm_pid THEN exec[l] ELSE content[Frame(p, l)]
      BY <2>2, <3>3 DEF MemoryOf
    <3>5. Pages(p)[l] = IF p = curr_vm_pid THEN exec[l] ELSE content[Frame(p, l)]
      BY <3>1 DEF Pages, Image, Memory
    <3> QED BY <2>2, <3>4, <3>5 DEF Whole
  <2> QED BY <2>1, <2>2
<1>2. ASSUME NEW p \in Live PROVE MemoryOf(p) = Whole(p)
  BY <1>1 DEF MemoryOf, Whole
<1> QED BY <1>2 DEF memory, Live

\* And after a step.
LEMMA MemoryMeansNext ==
    ASSUME IsolationInv'
    PROVE  memory' = [r \in Pid |-> IF r \in Live' THEN Whole(r)' ELSE <<>>]
<1>1. (memory = [r \in Pid |-> IF r \in Live THEN Whole(r) ELSE <<>>])'
  BY MemoryMeans, PTL
<1> QED BY <1>1

\* The processes that have a memory are those that are loaded.
LEMMA AliveMeans ==
    ASSUME IsolationInv, NEW p \in Pid
    PROVE  Private!Alive(p) <=> p \in Live
<1>1. memory[p] = IF p \in Live THEN Whole(p) ELSE <<>> BY MemoryMeans
<1>2. Whole(p) # <<>>
  <2>1. DOMAIN Whole(p) = Loc /\ STACK \in Loc BY Locations DEF Whole
  <2>2. DOMAIN <<>> = {} OBVIOUS
  <2> QED BY <2>1, <2>2
<1> QED BY <1>1, <1>2 DEF Private!Alive, Private!NoMemory

\* A step that changes the memory of no process.
LEMMA MemoryKept ==
    ASSUME IsolationInv, IsolationInv', Live' = Live,
           \A r \in Live : Pages(r)' = Pages(r) /\ StackOf(r)' = StackOf(r)
    PROVE  memory' = memory
<1>1. memory = [r \in Pid |-> IF r \in Live THEN Whole(r) ELSE <<>>]
  BY MemoryMeans
<1>3. memory' = [r \in Pid |-> IF r \in Live THEN Whole(r)' ELSE <<>>]
  BY MemoryMeansNext
<1>4. ASSUME NEW r \in Live PROVE Whole(r)' = Whole(r) BY DEF Whole
<1> QED BY <1>1, <1>3, <1>4

\* A trap saves and restores: every process keeps its stack.
LEMMA StacksKept ==
    ASSUME IsolationInv, NEW p \in Pid, Dispatch(p)
    PROVE  \A r \in Live : StackOf(r)' = StackOf(r)
<1> SUFFICES ASSUME NEW r \in Live PROVE StackOf(r)' = StackOf(r) OBVIOUS
<1>1. /\ proc_stack' = [proc_stack EXCEPT ![curr_pid] = stack]
      /\ stack' = IF p \in ready THEN 0 ELSE proc_stack'[p]
      /\ curr_pid' = p /\ ready' = ready \ {p} /\ p \in Live
  BY DEF Dispatch, manage_userstack, Live
<1>2. /\ proc_stack \in [Row -> Val] /\ curr_pid \in Row /\ r \in Row
      /\ p \in Row /\ curr_pid \notin ready
  BY <1>1, LiveFrames DEF IsolationInv, Inv, TypeOK, LiveInRow, Live, RunsOnce
<1>3. CASE r = p BY <1>1, <1>2, <1>3 DEF StackOf
<1>4. CASE r # p BY <1>1, <1>2, <1>4 DEF StackOf
<1> QED BY <1>3, <1>4

\* The memory after a trap.
LEMMA PagesAfter ==
    ASSUME NEW m \in MemoryRecord, SetMemory(m), app_pages' = app_pages, NEW r
    PROVE  Pages(r)' = Image(m, r)
<1>1. Memory' = m BY DEF Memory, SetMemory, MemoryRecord
<1>2. \A a \in Addr : Frame(r, a)' = Frame(r, a) BY DEF Frame
<1> QED BY <1>1, <1>2 DEF Pages, Image

\* Booting.
LEMMA RefineInit == Init => Private!Init
<1> SUFFICES ASSUME Init PROVE Private!Init OBVIOUS
<1> USE Sizes
<1> DEFINE image == Whole(GPID_PROCESS)
<1>1. IsolationInv BY IsolationInit
<1>2. Live = {GPID_PROCESS} /\ curr_pid = GPID_PROCESS /\ ready = {} /\ stack = 0
      /\ curr_vm_pid = GPID_PROCESS
  BY DEF Init, Live
<1>3. PICK v \in Val : exec = [a \in Addr |-> IF a <= CODE_PAGES THEN v ELSE 0]
  BY DEF Init
<1>4. \A a \in Addr : Pages(GPID_PROCESS)[a] = exec[a]
  BY <1>2 DEF Pages, Image, Memory
<1>5. StackOf(GPID_PROCESS) = 0 BY <1>2 DEF StackOf
<1>6. ASSUME NEW l \in Loc PROVE image[l] \in Val
  BY <1>3, <1>4, <1>5, Locations DEF Whole
<1>7. image \in [Loc -> Val] BY <1>6 DEF Whole
<1>8. image[SYSCALL_ARG] = 0
  <2>1. ~ (SYSCALL_ARG <= CODE_PAGES) OBVIOUS
  <2> QED BY <1>3, <1>4, <2>1, Locations DEF Whole
<1>9. image[STACK] = 0 BY <1>5, Locations DEF Whole
<1>10. image \in Images BY <1>7, <1>8, <1>9 DEF Images
<1>11. memory = [p \in Pid |-> IF p = GPID_PROCESS THEN image ELSE <<>>]
  BY <1>1, <1>2, MemoryMeans
<1> HIDE DEF image
<1> QED BY <1>2, <1>10, <1>11 DEF Private!Init, Private!NoMemory

\* A step that changes one location of one process.
LEMMA OneLocation ==
    ASSUME IsolationInv, IsolationInv', Live' = Live, NEW c \in Live,
           NEW l \in Loc, NEW v,
           \A r \in Live \ {c} : Whole(r)' = Whole(r),
           \A k \in Loc : Whole(c)'[k] = IF k = l THEN v ELSE Whole(c)[k]
    PROVE  memory' = [memory EXCEPT ![c] = [@ EXCEPT ![l] = v]]
<1>1. memory = [r \in Pid |-> IF r \in Live THEN Whole(r) ELSE <<>>]
  BY MemoryMeans
<1>3. memory' = [r \in Pid |-> IF r \in Live THEN Whole(r)' ELSE <<>>]
  BY MemoryMeansNext
<1>4. Whole(c)' = [Whole(c) EXCEPT ![l] = v] BY DEF Whole
<1>5. c \in Pid BY LiveFrames
<1> QED BY <1>1, <1>3, <1>4, <1>5

\* A store of the running process reaches its own memory.
LEMMA RefineStore ==
    ASSUME IsolationInv, IsolationInv', NEW a \in Addr, NEW v \in Val, store(a, v)
    PROVE  Private!Store(a, v)
<1>1. PICK c \in Live : c = curr_pid BY DEF IsolationInv, Inv, LiveInRow, Live
<1>2. /\ exec' = [exec EXCEPT ![a] = v]
      /\ UNCHANGED <<content, app_pages, curr_vm_pid, stack, proc_stack, curr_pid,
                     ready, started>>
  BY DEF store
<1>3. Live' = Live /\ curr_vm_pid = c
  BY <1>1, <1>2 DEF Live, IsolationInv, Inv, ExecIsCurrent
<1>4. exec \in [Addr -> Val] BY DEF IsolationInv, Inv, TypeOK
<1>5. \A r \in Live : StackOf(r)' = StackOf(r) BY <1>2 DEF StackOf
<1>6. ASSUME NEW r \in Live \ {c} PROVE Pages(r)' = Pages(r)
  BY <1>2, <1>3 DEF Pages, Image, Memory, Frame
<1>7. ASSUME NEW k \in Addr
      PROVE  Pages(c)'[k] = IF k = a THEN v ELSE Pages(c)[k]
  BY <1>2, <1>3, <1>4 DEF Pages, Image, Memory
<1>8. \A r \in Live \ {c} : Whole(r)' = Whole(r) BY <1>5, <1>6 DEF Whole
<1>9. ASSUME NEW k \in Loc
      PROVE  Whole(c)'[k] = IF k = a THEN v ELSE Whole(c)[k]
  BY <1>5, <1>7, Locations DEF Whole
<1>10. a \in Loc BY Locations
<1>11. memory' = [memory EXCEPT ![c] = [@ EXCEPT ![a] = v]]
  BY <1>3, <1>8, <1>9, <1>10, OneLocation
<1> QED BY <1>1, <1>2, <1>11 DEF Private!Store

\* So does a change of its stack.
LEMMA RefinePush ==
    ASSUME IsolationInv, IsolationInv', NEW v \in Val, push(v)
    PROVE  Private!Store(STACK, v)
<1>1. PICK c \in Live : c = curr_pid BY DEF IsolationInv, Inv, LiveInRow, Live
<1>2. /\ stack' = v
      /\ UNCHANGED <<content, app_pages, curr_vm_pid, exec, proc_stack, curr_pid,
                     ready, started>>
  BY DEF push
<1>3. Live' = Live /\ c \notin ready
  BY <1>1, <1>2 DEF Live, IsolationInv, Inv, LiveInRow, RunsOnce
<1>4. \A r \in Live \ {c} : StackOf(r)' = StackOf(r) BY <1>1, <1>2 DEF StackOf
<1>5. StackOf(c)' = v BY <1>1, <1>2, <1>3 DEF StackOf
<1>6. \A r \in Live : Pages(r)' = Pages(r)
  BY <1>2 DEF Pages, Image, Memory, Frame
<1>7. \A r \in Live \ {c} : Whole(r)' = Whole(r) BY <1>4, <1>6 DEF Whole
<1>8. ASSUME NEW k \in Loc
      PROVE  Whole(c)'[k] = IF k = STACK THEN v ELSE Whole(c)[k]
  BY <1>5, <1>6 DEF Whole
<1>9. STACK \in Loc BY Locations
<1>10. memory' = [memory EXCEPT ![c] = [@ EXCEPT ![STACK] = v]]
  BY <1>3, <1>7, <1>8, <1>9, OneLocation
<1> QED BY <1>1, <1>2, <1>10 DEF Private!Store

\* A trap without a message changes no memory.
LEMMA RefineYield ==
    ASSUME IsolationInv, IsolationInv', NEW p \in Pid, proc_yield(p)
    PROVE  Private!Switch(p)
<1>1. PICK m \in MemoryRecord :
         /\ Dispatch(p) /\ SetMemory(m)
         /\ \A r \in Live : Image(m, r) = Pages(r)
  BY YieldFacts
<1>2. curr_pid' = p /\ p \in Live /\ Live' = Live /\ app_pages' = app_pages
  BY <1>1 DEF Dispatch, Live
<1>3. \A r \in Live : Pages(r)' = Pages(r) BY <1>1, <1>2, PagesAfter
<1>4. \A r \in Live : StackOf(r)' = StackOf(r) BY <1>1, StacksKept
<1>5. memory' = memory BY <1>2, <1>3, <1>4, MemoryKept
<1>6. Private!Alive(p) BY <1>2, AliveMeans
<1> QED BY <1>2, <1>5, <1>6 DEF Private!Switch

\* msgcpy changes the system call arguments of the receiver only.
LEMMA RefineMsgcpy ==
    ASSUME IsolationInv, IsolationInv', NEW src \in Pid, NEW dst \in Pid,
           NEW p \in Pid, msgcpy(src, dst, p)
    PROVE  Private!Message(src, dst, p)
<1>1. PICK m \in MemoryRecord :
         /\ Dispatch(p) /\ SetMemory(m)
         /\ \A r \in Live \ {dst} : Image(m, r) = Pages(r)
         /\ Image(m, dst) = [Pages(dst) EXCEPT
                               ![SYSCALL_ARG] = Pages(src)[SYSCALL_ARG]]
  BY MsgcpyFacts
<1>2. /\ curr_pid' = p /\ p \in Live /\ Live' = Live /\ app_pages' = app_pages
      /\ src \in Live /\ dst \in Live
  BY <1>1 DEF Dispatch, Live, msgcpy
<1>3. \A r \in Live : StackOf(r)' = StackOf(r) BY <1>1, StacksKept
<1>4. \A r \in Live : Pages(r)' = Image(m, r) BY <1>1, <1>2, PagesAfter
<1>5. \A r \in Live \ {dst} : Whole(r)' = Whole(r) BY <1>1, <1>3, <1>4 DEF Whole
<1>6. ASSUME NEW k \in Addr
      PROVE  Pages(dst)'[k] =
                IF k = SYSCALL_ARG THEN Pages(src)[SYSCALL_ARG] ELSE Pages(dst)[k]
  <2>1. Pages(dst)' = [Pages(dst) EXCEPT ![SYSCALL_ARG] = Pages(src)[SYSCALL_ARG]]
    BY <1>1, <1>2, <1>4
  <2>2. DOMAIN Pages(dst) = Addr BY DEF Pages, Image
  <2> QED BY <2>1, <2>2
<1>7. Whole(src)[SYSCALL_ARG] = Pages(src)[SYSCALL_ARG] BY Locations DEF Whole
<1>8. ASSUME NEW k \in Loc
      PROVE  Whole(dst)'[k] =
                IF k = SYSCALL_ARG THEN Whole(src)[SYSCALL_ARG] ELSE Whole(dst)[k]
  BY <1>2, <1>3, <1>6, <1>7, Locations DEF Whole
<1>9. memory' = [memory EXCEPT
                   ![dst] = [@ EXCEPT ![SYSCALL_ARG] = Whole(src)[SYSCALL_ARG]]]
  BY <1>2, <1>5, <1>8, Locations, OneLocation
<1>10. memory[src] = Whole(src) BY <1>2, MemoryMeans
<1>11. Private!Alive(src) /\ Private!Alive(dst) /\ Private!Alive(p)
  BY <1>2, AliveMeans
<1> QED BY <1>2, <1>9, <1>10, <1>11 DEF Private!Message

\* Loading changes the memory of no process that is loaded.
LEMMA RefineLoading ==
    ASSUME IsolationInv, IsolationInv', Live' = Live, UNCHANGED ProcVars, ready' = ready,
           \A r \in Live, i \in Addr : Frame(r, i)' = Frame(r, i),
           \A r \in Live, i \in Addr :
              content'[Frame(r, i)] = content[Frame(r, i)]
    PROVE  UNCHANGED <<curr_pid, memory>>
<1>1. ASSUME NEW r \in Live PROVE Pages(r)' = Pages(r)
  <2>1. ASSUME NEW a \in Addr
        PROVE  content'[Frame(r, a)'] = content[Frame(r, a)]
    BY <2>1
  <2> QED BY <2>1 DEF Pages, Image, Memory, ProcVars
<1>2. \A r \in Live : StackOf(r)' = StackOf(r) BY DEF StackOf, ProcVars
<1> QED BY <1>1, <1>2, MemoryKept DEF ProcVars

\* A process is born with the pages that load_app has filled.
LEMMA RefineSetReady ==
    ASSUME IsolationInv, IsolationInv', proc_set_ready
    PROVE  \E p \in Pid : Private!Birth(p)
<1> USE Sizes
<1>1. PICK p \in Pid : p = loading BY SetReadyFacts
<1>2. /\ p \in Row \ Live /\ Live' = Live \cup {p}
      /\ \A i \in Addr : Frame(p, i) \in Page
      /\ content[Frame(p, SYSCALL_ARG)] = 0
  BY <1>1, SetReadyFacts
<1>3. /\ ready' = ready \cup {p}
      /\ UNCHANGED <<content, app_pages, curr_vm_pid, exec, stack, proc_stack,
                     curr_pid, started>>
  BY <1>1 DEF proc_set_ready, ProcVars
<1>4. p # curr_vm_pid
  BY <1>2 DEF IsolationInv, Inv, ExecIsCurrent, LiveInRow, Live
<1>5. \A r \in Live : Pages(r)' = Pages(r) /\ StackOf(r)' = StackOf(r)
  BY <1>2, <1>3 DEF Pages, Image, Memory, Frame, StackOf
<1>6. \A r \in Live : Whole(r)' = Whole(r) BY <1>5 DEF Whole
<1>7. \A a \in Addr : Pages(p)'[a] = content[Frame(p, a)]
  BY <1>3, <1>4 DEF Pages, Image, Memory, Frame
<1>8. StackOf(p)' = 0 BY <1>3 DEF StackOf
<1>9. Whole(p)' \in Images
  <2>1. content \in [Page -> Val] BY DEF IsolationInv, Inv, TypeOK
  <2>2. ASSUME NEW l \in Loc PROVE Whole(p)'[l] \in Val
    BY <1>2, <1>7, <1>8, <2>1, Locations DEF Whole
  <2>3. Whole(p)' \in [Loc -> Val] BY <2>2 DEF Whole
  <2>4. Whole(p)'[SYSCALL_ARG] = 0 /\ Whole(p)'[STACK] = 0
    BY <1>2, <1>7, <1>8, Locations DEF Whole
  <2> QED BY <2>3, <2>4 DEF Images
<1>10. memory = [r \in Pid |-> IF r \in Live THEN Whole(r) ELSE <<>>]
  BY MemoryMeans
<1>12. memory' = [r \in Pid |-> IF r \in Live \cup {p} THEN Whole(r)' ELSE <<>>]
  BY <1>2, MemoryMeansNext
<1>13. memory'[p] = Whole(p)' BY <1>12
<1>14. memory' = [memory EXCEPT ![p] = memory'[p]]
  BY <1>6, <1>10, <1>12, <1>13
<1>15. ~ Private!Alive(p) BY <1>2, AliveMeans
<1> QED BY <1>3, <1>9, <1>13, <1>14, <1>15 DEF Private!Birth

\* proc_free takes the memory of the processes it frees and of no other.
LEMMA RefineFree ==
    ASSUME IsolationInv, IsolationInv', NEW P \in SUBSET (Users \cap Row),
           proc_free(P)
    PROVE  Private!Death(P)
<1>1. /\ Live' = Live \ P /\ GPID_PROCESS \notin P
      /\ \A r \in Row, i \in Addr : r \notin P => app_pages'[r][i] = app_pages[r][i]
  BY FreeFacts
<1>2. /\ curr_pid = GPID_PROCESS
      /\ UNCHANGED <<content, curr_vm_pid, exec, stack, proc_stack, curr_pid>>
      /\ ready' = ready \ P
  BY DEF proc_free, InSysProc
<1>3. ASSUME NEW r \in Live \ P PROVE Whole(r)' = Whole(r)
  <2>1. r \in Row BY LiveFrames
  <2>2. \A i \in Addr : Frame(r, i)' = Frame(r, i) BY <1>1, <2>1 DEF Frame
  <2>3. Pages(r)' = Pages(r) BY <1>2, <2>2 DEF Pages, Image, Memory
  <2>4. StackOf(r)' = StackOf(r) BY <1>2 DEF StackOf
  <2> QED BY <2>3, <2>4 DEF Whole
<1>4. memory = [r \in Pid |-> IF r \in Live THEN Whole(r) ELSE <<>>]
  BY MemoryMeans
<1>6. memory' = [r \in Pid |-> IF r \in Live \ P THEN Whole(r)' ELSE <<>>]
  BY <1>1, MemoryMeansNext
<1>7. memory' = [r \in Pid |-> IF r \in P THEN <<>> ELSE memory[r]]
  BY <1>3, <1>4, <1>6
<1> QED BY <1>1, <1>2, <1>7 DEF Private!Death, Private!NoMemory

\* No process sees or changes the memory of another: the software TLB, the
\* copies of messages, the loader and proc_free together give every process a
\* memory of its own, although all execute at the same addresses.
THEOREM MemoryIsPrivate == Spec => ImplementsPrivateMemory
<1>1. Init => Private!Init BY RefineInit
<1>2. ASSUME IsolationInv, IsolationInv', [Next]_vars
      PROVE  [Private!Next]_<<curr_pid, memory>>
  <2> USE Sizes
  <2>1. CASE UNCHANGED vars
    <3>1. Live' = Live BY <2>1 DEF vars, Live
    <3>2. \A r \in Live : Pages(r)' = Pages(r) /\ StackOf(r)' = StackOf(r)
      BY <2>1 DEF vars, Pages, Image, Memory, Frame, StackOf
    <3>3. memory' = memory BY <1>2, <3>1, <3>2, MemoryKept
    <3> QED BY <2>1, <3>3 DEF vars
  <2>2. CASE \E a \in Addr, v \in Val : store(a, v)
    <3>1. PICK a \in Addr, v \in Val : store(a, v) BY <2>2
    <3>2. a \in Loc /\ Private!Store(a, v) BY <1>2, <3>1, RefineStore, Locations
    <3> QED BY <3>2 DEF Private!Next
  <2>3. CASE \E v \in Val : push(v)
    <3>1. PICK v \in Val : push(v) BY <2>3
    <3>2. STACK \in Loc /\ Private!Store(STACK, v)
      BY <1>2, <3>1, RefinePush, Locations
    <3> QED BY <3>2 DEF Private!Next
  <2>4. CASE \E p \in Pid : proc_yield(p)
    BY <1>2, <2>4, RefineYield DEF Private!Next
  <2>5. CASE \E src, dst, p \in Pid : msgcpy(src, dst, p)
    BY <1>2, <2>5, RefineMsgcpy DEF Private!Next
  <2>6. CASE \E p \in Pid : elf_load(p)
    <3>1. UNCHANGED <<app_pages, content, ready, started, ProcVars>>
      BY <2>6 DEF elf_load, ProcVars
    <3>2. Live' = Live /\ \A r \in Live, i \in Addr : Frame(r, i)' = Frame(r, i)
      BY <3>1 DEF Live, Frame
    <3> QED BY <1>2, <3>1, <3>2, RefineLoading
  <2>7. CASE load_code \/ (\E v \in Val : load_args(v)) \/ load_syscall_page
    <3>1. PICK a \in Addr, v \in Val : Loads(a, v) BY <1>2, <2>7, LoadSteps
    <3>2. Inv' BY <1>2 DEF IsolationInv
    <3>3. /\ \A r \in Live, i \in Addr : Frame(r, i)' = Frame(r, i)
          /\ \A r \in Live, i \in Addr :
                content'[Frame(r, i)] = content[Frame(r, i)]
      BY <1>2, <3>1, <3>2, IsolationMapPage DEF Loads
    <3>4. UNCHANGED <<ready, ProcVars>> /\ Live' = Live
      BY <3>1 DEF Loads, MapPage, ProcVars, Live
    <3> QED BY <1>2, <3>3, <3>4, RefineLoading
  <2>8. CASE \E k \in 1 .. CODE_PAGES, v \in Val : load_read(k, v)
    <3>1. UNCHANGED <<app_pages, ready, ProcVars>> /\ Live' = Live
      BY <2>8 DEF load_read, ProcVars, Live
    <3>2. \A r \in Live, i \in Addr : content'[Frame(r, i)] = content[Frame(r, i)]
      BY <1>2, <2>8, LoadReadFacts
    <3>3. \A r \in Live, i \in Addr : Frame(r, i)' = Frame(r, i)
      BY <3>1 DEF Frame
    <3> QED BY <1>2, <3>1, <3>2, <3>3, RefineLoading
  <2>9. CASE proc_set_ready BY <1>2, <2>9, RefineSetReady DEF Private!Next
  <2>10. ASSUME NEW P \in SUBSET (Users \cap Row), proc_free(P)
         PROVE  Private!Next
    <3>1. Private!Death(P) /\ P \in SUBSET Users BY <1>2, <2>10, RefineFree
    <3> QED BY <3>1 DEF Private!Next
  <2>11. CASE \E p \in Users \cap Row : proc_free({p})
    <3>1. PICK p \in Users \cap Row : proc_free({p}) BY <2>11
    <3>2. {p} \in SUBSET (Users \cap Row) OBVIOUS
    <3> QED BY <2>10, <3>1, <3>2
  <2>12. CASE proc_free((Users \cap Row) \cap (ready \cup started))
    <3>1. (Users \cap Row) \cap (ready \cup started) \in SUBSET (Users \cap Row)
      OBVIOUS
    <3> QED BY <2>10, <2>12, <3>1
  <2> QED BY <1>2, <2>1, <2>2, <2>3, <2>4, <2>5, <2>6, <2>7, <2>8, <2>9, <2>11,
             <2>12 DEF Next
<1>3. Spec => []IsolationInv BY IsolationInvariance
<1> QED BY <1>1, <1>2, <1>3, PTL DEF Spec, ImplementsPrivateMemory, Private!Spec
=============================================================================
