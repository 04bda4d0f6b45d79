--------------------------- MODULE LuaHooks_proofs ---------------------------
(***************************************************************************)
(* For any mods, functions and numbers of hooks and calls within calls,    *)
(* under the three bounds that TLC's runs have too: no blueprint function  *)
(* is hooked by two mods, no post callback causes a call of its own        *)
(* function, and no uninstall begins while a native hook function of its   *)
(* mod runs, or closes the Lua state while one is on its way.              *)
(***************************************************************************)
EXTENDS LuaHooks, SequenceTheorems, TLAPS

Bounds == ~Sharing /\ ~Recursion /\ ~Interrupts

Hooks == [mod : Mods, fn : Functions, post : BOOLEAN]
Frames == [fn : Functions, phase : {"pre", "post", "script"}, todo : SUBSET Nat, running : Nat,
           at : Positions, marked : SUBSET Nat]

\* Positions between the test of the flag and the post hook's last, in remove_if_scheduled,
\* and in it once the callbacks are gone.
InLua == {"enter", "lua", "again"}
Removing == {"unhook", "unref", "erase"}
Ends == {"unref", "erase"}

\* In the stack of calls s, the hook function of h is at position p.
At(s, h, p) == \E i \in 1 .. Len(s) : s[i].running = h /\ s[i].at = p

\* The hook function of call c still uses its hook's data.
UsesData(c) == c.at # "idle" /\ c.phase # "script" /\ ~(c.phase = "pre" /\ c.at = "lua")

\* The registrations and what is said about each.
Registered ==
  /\ hook \in Seq(Hooks)
  /\ hooked \subseteq listed /\ listed \subseteq HookIds
  /\ scheduled \subseteq HookIds /\ dropped \subseteq HookIds
  /\ \A h \in listed \cup scheduled : hook[h].fn \in Native
  /\ \A h \in dropped : hook[h].fn \in Script
  /\ released \in Seq(Nat) /\ Len(released) = Len(hook)

\* What an uninstall has done at each of its stages.
Staged ==
  /\ stage \in [Mods -> Stages]
  /\ \A m, k \in Mods : {stage[m], stage[k]} \subseteq Busy => m = k
  /\ \A h \in listed : stage[hook[h].mod] # "closed"
  /\ \A h \in listed : h \in scheduled \/ stage[hook[h].mod] = "open"
  /\ \A h \in hooked : stage[hook[h].mod] \in {"open", "unhook"}
  /\ \A h \in HookIds : hook[h].fn \in Native /\ stage[hook[h].mod] = "open" => h \in listed \cup scheduled

\* How far the removals are: by a post hook, or by an uninstall.
Removals ==
  /\ ReleasedOnce
  /\ \A h \in listed : h \in hooked \/ stage[hook[h].mod] \in {"close", "erase"} \/ \E p \in Ends : At(calls, h, p)
  /\ \A h \in hooked : \A p \in Ends : ~At(calls, h, p)

\* A group belongs to its creator, which is open and the only mod with hooks in it.
Grouped ==
  /\ groups \in [Script -> SUBSET HookIds] /\ owner \in [Script -> SUBSET Mods]
  /\ \A f \in Script : \A h \in groups[f] : hook[h].fn = f /\ hook[h].mod \in owner[f]
  /\ \A f \in Script : \A m \in owner[f] :
       stage[m] = "open" /\ \E h \in HookIds : hook[h].fn = f /\ hook[h].mod = m
  /\ \A h, k \in HookIds : hook[h].fn = hook[k].fn /\ hook[h].fn \in Script => hook[h].mod = hook[k].mod
  /\ \A h \in HookIds : hook[h].fn \in Script /\ stage[hook[h].mod] = "open" => h \in groups[hook[h].fn]

\* A call c under registrations hk, marks sch, data lst and stages st.
Sound(c, hk, sch, lst, st) ==
  /\ c.todo \subseteq 1 .. Len(hk) /\ c.marked \subseteq sch
  /\ c.running \in c.todo \cup {NoHook}
  /\ c.running = NoHook <=> c.at = "idle"
  /\ \A h \in c.todo : hk[h].fn = c.fn
  /\ c.fn \in Script <=> c.phase = "script"
  /\ c.phase = "script" => c.at \in {"idle", "lua"} /\ \A h \in c.todo : st[hk[h].mod] = "open"
  /\ c.at \in InLua => st[hk[c.running].mod] = "open"
  /\ c.at # "idle" => st[hk[c.running].mod] \in {"open", "unhook", "close"}
  /\ UsesData(c) => c.running \in lst
  /\ c.at \in Removing => c.phase = "post" /\ c.running \in sch
  /\ c.phase = "post" =>
       \A h \in c.marked \cap lst : hk[h].fn = c.fn /\ st[hk[h].mod] = "open" => h \in c.todo

\* Calls are made from Lua, and not of a function in its own post phase.
Stacked ==
  /\ calls \in Seq(Frames)
  /\ \A i \in 1 .. Len(calls) : Sound(calls[i], hook, scheduled, listed, stage)
  /\ InScriptHook => ~Uninstalling
  /\ \A i \in 1 .. Len(calls) : i # Len(calls) => calls[i].at = "lua"
  /\ \A i, j \in 1 .. Len(calls) : i < j /\ calls[i].phase = "post" => calls[j].fn # calls[i].fn

Inv == Registered /\ Staged /\ Removals /\ Grouped /\ Stacked
-----------------------------------------------------------------------------
(* Sequences of calls and of registrations.                                *)

LEMMA Replaced ==
  ASSUME NEW S, NEW s \in Seq(S), s # <<>>, NEW c \in S, NEW t, t = [s EXCEPT ![Len(s)] = c]
  PROVE  /\ t \in Seq(S) /\ Len(t) = Len(s) /\ Len(s) \in 1 .. Len(s)
         /\ t[Len(s)] = c /\ \A i \in 1 .. Len(s) : i # Len(s) => t[i] = s[i]
<1>1. Len(s) \in Nat \ {0}
  BY EmptySeq, LenProperties
<1>2. Len(s) \in 1 .. Len(s)
  BY <1>1
<1> QED
  BY <1>2, ExceptSeq

LEMMA Pushed ==
  ASSUME NEW S, NEW s \in Seq(S), NEW c \in S, NEW t, t = Append(s, c)
  PROVE  /\ t \in Seq(S) /\ Len(t) = Len(s) + 1 /\ Len(s) \in Nat
         /\ t[Len(s) + 1] = c /\ \A i \in 1 .. Len(s) : t[i] = s[i]
BY AppendProperties, LenProperties

LEMMA Popped ==
  ASSUME NEW S, NEW s \in Seq(S), s # <<>>, NEW t, t = SubSeq(s, 1, Len(s) - 1)
  PROVE  /\ t \in Seq(S) /\ Len(t) = Len(s) - 1 /\ Len(s) \in Nat \ {0}
         /\ \A i \in 1 .. Len(t) : t[i] = s[i]
<1>1. Len(s) \in Nat \ {0}
  BY EmptySeq, LenProperties
<1> DEFINE n == Len(s) - 1
<1>2. 1 \in Int /\ n \in Int /\ n \in Nat /\ \A i \in 1 .. n : i \in 1 .. Len(s)
  BY <1>1
<1>3. \A i \in 1 .. n : s[i] \in S
  BY <1>2, ElementOfSeq
<1> HIDE DEF n
<1>4. /\ SubSeq(s, 1, n) \in Seq(S)
      /\ Len(SubSeq(s, 1, n)) = IF 1 <= n THEN n - 1 + 1 ELSE 0
      /\ \A i \in 1 .. n - 1 + 1 : SubSeq(s, 1, n)[i] = s[1 + i - 1]
  BY <1>2, <1>3, SubSeqProperties
<1>5. Len(t) = n /\ t \in Seq(S)
  <2>1. t = SubSeq(s, 1, n)
    BY DEF n
  <2>2. (IF 1 <= n THEN n - 1 + 1 ELSE 0) = n
    BY <1>2
  <2> QED
    BY <1>4, <2>1, <2>2
<1>6. \A i \in 1 .. n : t[i] = s[i]
  BY <1>2, <1>4 DEF n
<1> QED
  BY <1>1, <1>5, <1>6 DEF n

\* What a call relies on may only grow weaker for it.
LEMMA SoundStays ==
  ASSUME NEW c, NEW hk, NEW hk2, NEW sch, NEW sch2, NEW lst, NEW lst2, NEW st, NEW st2,
         Sound(c, hk, sch, lst, st),
         1 .. Len(hk) \subseteq 1 .. Len(hk2), \A h \in 1 .. Len(hk) : hk2[h] = hk[h],
         sch \subseteq 1 .. Len(hk), sch \subseteq sch2, lst2 \cap (1 .. Len(hk)) \subseteq lst,
         c.phase = "script" => \A h \in c.todo : st2[hk[h].mod] = "open",
         c.at \in InLua => st2[hk[c.running].mod] = "open",
         c.at # "idle" => st2[hk[c.running].mod] \in {"open", "unhook", "close"},
         UsesData(c) => c.running \in lst2,
         \A h \in 1 .. Len(hk) : st2[hk[h].mod] = "open" => st[hk[h].mod] = "open"
  PROVE  Sound(c, hk2, sch2, lst2, st2)
<1>1. c.at # "idle" => c.running \in 1 .. Len(hk)
  BY DEF Sound
<1>2. c.phase = "post" =>
        \A h \in c.marked \cap lst2 : hk2[h].fn = c.fn /\ st2[hk2[h].mod] = "open" => h \in c.todo
  BY DEF Sound
<1>3. c.at # "idle" => hk2[c.running] = hk[c.running]
  BY <1>1
<1>4. c.at \in InLua => c.at # "idle"
  BY DEF InLua
<1> QED
  BY <1>2, <1>3, <1>4 DEF Sound
\* So it is for a native function's call when a mod's stage changes.
LEMMA SoundThrough ==
  ASSUME NEW c, NEW hk, NEW sch, NEW sch2, NEW lst, NEW lst2, NEW st, NEW st2,
         Sound(c, hk, sch, lst, st), c.phase # "script", sch \subseteq sch2, lst2 \subseteq lst, lst \subseteq 1 .. Len(hk),
         c.at \in InLua => st2[hk[c.running].mod] = "open",
         c.at # "idle" => st2[hk[c.running].mod] \in {"open", "unhook", "close"},
         UsesData(c) => c.running \in lst2,
         \A h \in 1 .. Len(hk) : st2[hk[h].mod] = "open" => st[hk[h].mod] = "open"
  PROVE  Sound(c, hk, sch2, lst2, st2)
<1>1. c.phase = "post" =>
        \A h \in c.marked \cap lst2 : hk[h].fn = c.fn /\ st2[hk[h].mod] = "open" => h \in c.todo
  <2> SUFFICES ASSUME c.phase = "post", NEW h \in c.marked \cap lst2, hk[h].fn = c.fn, st2[hk[h].mod] = "open"
               PROVE  h \in c.todo
    OBVIOUS
  <2>1. h \in 1 .. Len(hk) /\ st[hk[h].mod] = "open"
    OBVIOUS
  <2> QED
    BY <2>1 DEF Sound
<1> QED
  BY <1>1 DEF Sound
-----------------------------------------------------------------------------
(* Steps of the game thread that leave the registrations alone.            *)

LEMMA RegistryStays ==
  ASSUME Registered, Staged, Grouped, UNCHANGED <<registry, stage>>
  PROVE  (Registered /\ Staged /\ Grouped)'
<1>1. Registered'
  BY DEF Registered, registry, HookIds
<1>2. Staged'
  BY DEF Staged, registry, HookIds
<1>3. Grouped'
  BY DEF Grouped, registry, HookIds
<1> QED
  BY <1>1, <1>2, <1>3

LEMMA RemovalsStay ==
  ASSUME Removals, UNCHANGED <<registry, stage>>,
         \A h : \A p \in Ends : At(calls', h, p) <=> At(calls, h, p)
  PROVE  Removals'
<1>1. \A h : IsErased(h)' <=> IsErased(h)
  BY DEF IsErased, At, Ends, registry
<1>2. ReleasedOnce'
  BY <1>1 DEF Removals, ReleasedOnce, registry, HookIds
<1> QED
  BY <1>2 DEF Removals, registry

\* Only the innermost call is outside Lua.
LEMMA OnTop ==
  ASSUME NEW s \in Seq(Frames), s # <<>>, \A i \in 1 .. Len(s) : i # Len(s) => s[i].at = "lua",
         NEW h, NEW p \in Ends
  PROVE  At(s, h, p) <=> s[Len(s)].running = h /\ s[Len(s)].at = p
<1>1. Len(s) \in 1 .. Len(s)
  BY EmptySeq, LenProperties
<1> QED
  BY <1>1 DEF At, Ends

LEMMA TopReplaced ==
  ASSUME Stacked, calls # <<>>, UNCHANGED stage,
         NEW c \in Frames, c.fn = Current.fn, c.phase = "script" <=> Current.phase = "script", ContinueWith(c),
         \A i \in 1 .. Len(calls) : i # Len(calls) => Sound(calls[i], hook', scheduled', listed', stage'),
         Sound(c, hook', scheduled', listed', stage')
  PROVE  /\ Stacked'
         /\ \A h : \A p \in Ends : At(calls, h, p) <=> Current.running = h /\ Current.at = p
         /\ \A h : \A p \in Ends : At(calls', h, p) <=> c.running = h /\ c.at = p
<1>1. /\ calls' \in Seq(Frames) /\ Len(calls') = Len(calls) /\ Len(calls) \in 1 .. Len(calls)
      /\ calls'[Len(calls)] = c /\ \A i \in 1 .. Len(calls) : i # Len(calls) => calls'[i] = calls[i]
  BY Replaced DEF Stacked, ContinueWith
<1>2. \A i \in 1 .. Len(calls) : /\ calls'[i].fn = calls[i].fn
                                 /\ calls'[i].phase = "script" <=> calls[i].phase = "script"
  BY <1>1 DEF Stacked, Current
<1>3. \A i \in 1 .. Len(calls') : Sound(calls'[i], hook', scheduled', listed', stage')
  BY <1>1
<1>4. InScriptHook' => ~Uninstalling'
  BY <1>1, <1>2 DEF Stacked, InScriptHook, Uninstalling
<1>5. \A i, j \in 1 .. Len(calls') : i < j /\ calls'[i].phase = "post" => calls'[j].fn # calls'[i].fn
  <2> SUFFICES ASSUME NEW i \in 1 .. Len(calls), NEW j \in 1 .. Len(calls), i < j, calls'[i].phase = "post"
               PROVE  calls'[j].fn # calls'[i].fn
    BY <1>1
  <2>1. Len(calls) \in Nat
    BY LenProperties DEF Stacked
  <2>2. i # Len(calls)
    BY <2>1
  <2> QED
    BY <1>1, <1>2, <2>2 DEF Stacked
<1>6. \A i \in 1 .. Len(calls') : i # Len(calls') => calls'[i].at = "lua"
  BY <1>1 DEF Stacked
<1>7. calls' # <<>>
  BY <1>1, EmptySeq
<1>8. \A h : \A p \in Ends : At(calls, h, p) <=> Current.running = h /\ Current.at = p
  BY OnTop DEF Stacked, Current
<1>9. \A h : \A p \in Ends : At(calls', h, p) <=> c.running = h /\ c.at = p
  BY <1>1, <1>6, <1>7, OnTop
<1>10. Stacked'
  BY <1>1, <1>3, <1>4, <1>5, <1>6 DEF Stacked
<1> QED
  BY <1>8, <1>9, <1>10

LEMMA CallPushed ==
  ASSUME Bounds, Stacked, UNCHANGED <<registry, stage>>,
         NEW c \in Frames, MayCall(c.fn), c.at = "idle", c.phase # "post", c.phase = "script" => ~Uninstalling,
         Sound(c, hook, scheduled, listed, stage), calls' = Append(calls, c)
  PROVE  /\ Stacked'
         /\ \A h : \A p \in Ends : At(calls', h, p) <=> At(calls, h, p)
<1>1. /\ calls' \in Seq(Frames) /\ Len(calls') = Len(calls) + 1 /\ Len(calls) \in Nat
      /\ calls'[Len(calls) + 1] = c /\ \A i \in 1 .. Len(calls) : calls'[i] = calls[i]
  BY Pushed DEF Stacked
<1>2. \A i \in 1 .. Len(calls') : Sound(calls'[i], hook', scheduled', listed', stage')
  <2> SUFFICES ASSUME NEW i \in 1 .. Len(calls') PROVE Sound(calls'[i], hook, scheduled, listed, stage)
    BY DEF registry
  <2>1. CASE i = Len(calls) + 1
    BY <1>1, <2>1
  <2>2. CASE i \in 1 .. Len(calls)
    BY <1>1, <2>2 DEF Stacked
  <2> QED
    BY <1>1, <2>1, <2>2
<1>3. InScriptHook' => ~Uninstalling'
  <2> SUFFICES ASSUME NEW i \in 1 .. Len(calls'), calls'[i].phase = "script" PROVE ~Uninstalling
    BY DEF InScriptHook, Uninstalling
  <2>1. CASE i = Len(calls) + 1
    BY <1>1, <2>1
  <2>2. CASE i \in 1 .. Len(calls)
    BY <1>1, <2>2 DEF Stacked, InScriptHook
  <2> QED
    BY <1>1, <2>1, <2>2
<1>4. \A i, j \in 1 .. Len(calls') : i < j /\ calls'[i].phase = "post" => calls'[j].fn # calls'[i].fn
  <2> SUFFICES ASSUME NEW i \in 1 .. Len(calls'), NEW j \in 1 .. Len(calls'), i < j, calls'[i].phase = "post"
               PROVE  calls'[j].fn # calls'[i].fn
    OBVIOUS
  <2>1. i \in 1 .. Len(calls) /\ calls[i].phase = "post"
    BY <1>1
  <2>2. CASE j = Len(calls) + 1
    BY <1>1, <2>1, <2>2 DEF MayCall, Bounds
  <2>3. CASE j \in 1 .. Len(calls)
    BY <1>1, <2>1, <2>3 DEF Stacked
  <2> QED
    BY <1>1, <2>2, <2>3
<1>5. \A i \in 1 .. Len(calls') : i # Len(calls') => calls'[i].at = "lua"
  <2> SUFFICES ASSUME NEW i \in 1 .. Len(calls'), i # Len(calls') PROVE calls[i].at = "lua"
    BY <1>1
  <2>1. i \in 1 .. Len(calls)
    BY <1>1
  <2>2. CASE i = Len(calls)
    <3>1. calls # <<>>
      BY <2>1, EmptySeq
    <3> QED
      BY <2>2, <3>1 DEF MayCall, InCallback, Current
  <2>3. CASE i # Len(calls)
    BY <2>1, <2>3 DEF Stacked
  <2> QED
    BY <2>2, <2>3
<1>6. \A h : \A p \in Ends : At(calls', h, p) <=> At(calls, h, p)
  BY <1>1 DEF At, Ends
<1>7. Stacked'
  BY <1>1, <1>2, <1>3, <1>4, <1>5 DEF Stacked
<1> QED
  BY <1>6, <1>7

LEMMA CallReturned ==
  ASSUME Stacked, calls # <<>>, Current.at = "idle", UNCHANGED <<registry, stage>>, Return
  PROVE  /\ Stacked'
         /\ \A h : \A p \in Ends : At(calls', h, p) <=> At(calls, h, p)
<1>1. /\ calls' \in Seq(Frames) /\ Len(calls') = Len(calls) - 1 /\ Len(calls) \in Nat \ {0}
      /\ \A i \in 1 .. Len(calls') : calls'[i] = calls[i]
  <2>1. calls \in Seq(Frames)
    BY DEF Stacked
  <2> QED
    BY <2>1, Popped DEF Return
<1>2. 1 .. Len(calls') \subseteq 1 .. Len(calls)
  BY <1>1
<1>3. \A i \in 1 .. Len(calls') : Sound(calls'[i], hook', scheduled', listed', stage')
  BY <1>1, <1>2 DEF Stacked, registry
<1>4. InScriptHook' => ~Uninstalling'
  BY <1>1, <1>2 DEF Stacked, InScriptHook, Uninstalling
<1>5. \A i, j \in 1 .. Len(calls') : i < j /\ calls'[i].phase = "post" => calls'[j].fn # calls'[i].fn
  BY <1>1, <1>2 DEF Stacked
<1>6. \A i \in 1 .. Len(calls') : i # Len(calls') => calls'[i].at = "lua"
  <2>1. \A i \in 1 .. Len(calls') : i # Len(calls)
    BY <1>1
  <2> QED
    BY <1>1, <1>2, <2>1 DEF Stacked
<1>7. \A h : \A p \in Ends : At(calls', h, p) <=> At(calls, h, p)
  <2>1. \A i \in 1 .. Len(calls) : i = Len(calls) \/ i \in 1 .. Len(calls')
    BY <1>1
  <2> QED
    BY <1>1, <1>2, <2>1 DEF At, Ends, Current
<1>8. Stacked'
  BY <1>1, <1>3, <1>4, <1>5, <1>6 DEF Stacked
<1> QED
  BY <1>7, <1>8
-----------------------------------------------------------------------------
(* The game thread's calls, without a removal.                             *)

\* A record of a call in the stack, and the registrations, as the provers need them.
LEMMA TopFrame ==
  ASSUME Inv, calls # <<>>
  PROVE  /\ Current \in Frames /\ Sound(Current, hook, scheduled, listed, stage)
         /\ Len(hook) \in Nat /\ HookIds \subseteq Nat \ {0}
<1>1. Len(calls) \in Nat \ {0} /\ Len(hook) \in Nat
  BY EmptySeq, LenProperties DEF Inv, Stacked, Registered
<1>2. Len(calls) \in 1 .. Len(calls)
  BY <1>1
<1>3. Current \in Frames
  BY <1>2, ElementOfSeq DEF Inv, Stacked, Current
<1> QED
  BY <1>1, <1>2, <1>3 DEF Inv, Stacked, Current, HookIds

LEMMA Identifiers ==
  ASSUME Inv
  PROVE  /\ Len(hook) \in Nat /\ HookIds \subseteq Nat \ {0}
         /\ hooked \subseteq HookIds /\ listed \subseteq HookIds /\ scheduled \subseteq HookIds
<1>1. Len(hook) \in Nat
  BY LenProperties DEF Inv, Registered
<1>2. HookIds \subseteq Nat \ {0}
  BY <1>1 DEF HookIds
<1> QED
  BY <1>1, <1>2 DEF Inv, Registered

LEMMA CallNativeKeeps ==
  ASSUME Bounds, Inv, NEW f \in Native, CallNative(f)
  PROVE  Inv'
<1> DEFINE c == Call(f, "pre", CallbacksOf(f))
<1>1. CallbacksOf(f) \subseteq HookIds /\ scheduled \subseteq HookIds /\ HookIds \subseteq Nat /\ f \in Functions
  BY Identifiers DEF CallbacksOf, Functions
<1>2. /\ c \in Frames /\ c.fn = f /\ c.phase = "pre" /\ c.todo = CallbacksOf(f)
      /\ c.running = NoHook /\ c.at = "idle" /\ c.marked = scheduled
  BY <1>1 DEF Call, Frames, NoHook, Positions
<1>3. Sound(c, hook, scheduled, listed, stage)
  BY <1>1, <1>2, HooksAssumption DEF Sound, CallbacksOf, HookIds, UsesData, InLua, Removing
<1>4. Stacked' /\ \A h : \A p \in Ends : At(calls', h, p) <=> At(calls, h, p)
  <2>1. calls' = Append(calls, c) /\ MayCall(c.fn) /\ UNCHANGED <<registry, stage>>
    BY <1>2 DEF CallNative
  <2>2. c.phase # "post" /\ (c.phase = "script" => ~Uninstalling)
    BY <1>2
  <2> HIDE DEF c
  <2> QED
    BY <1>2, <1>3, <2>1, <2>2, CallPushed DEF Inv
<1>5. (Registered /\ Staged /\ Grouped)' /\ Removals'
  BY <1>4, RegistryStays, RemovalsStay DEF Inv, CallNative
<1> QED
  BY <1>4, <1>5 DEF Inv

LEMMA CallScriptKeeps ==
  ASSUME Bounds, Inv, NEW f \in Script, CallScript(f)
  PROVE  Inv'
<1> DEFINE c == Call(f, "script", groups[f])
<1>1. groups[f] \subseteq HookIds /\ scheduled \subseteq HookIds /\ HookIds \subseteq Nat /\ f \in Functions
  BY LenProperties DEF HookIds, Inv, Registered, Grouped, Functions
<1>2. /\ c \in Frames /\ c.fn = f /\ c.phase = "script" /\ c.todo = groups[f]
      /\ c.running = NoHook /\ c.at = "idle" /\ c.marked = scheduled
  BY <1>1 DEF Call, Frames, NoHook, Positions
<1>3. \A h \in groups[f] : hook[h].fn = f /\ stage[hook[h].mod] = "open"
  BY DEF Inv, Grouped
<1>4. Sound(c, hook, scheduled, listed, stage)
  BY <1>1, <1>2, <1>3 DEF Sound, HookIds, UsesData, InLua, Removing
<1>5. Stacked' /\ \A h : \A p \in Ends : At(calls', h, p) <=> At(calls, h, p)
  <2>1. calls' = Append(calls, c) /\ MayCall(c.fn) /\ UNCHANGED <<registry, stage>> /\ ~Uninstalling
    BY <1>2 DEF CallScript
  <2>2. c.phase # "post"
    BY <1>2
  <2> HIDE DEF c
  <2> QED
    BY <1>2, <1>4, <2>1, <2>2, CallPushed DEF Inv
<1>6. (Registered /\ Staged /\ Grouped)' /\ Removals'
  BY <1>5, RegistryStays, RemovalsStay DEF Inv, CallScript
<1> QED
  BY <1>5, <1>6 DEF Inv

\* What the steps of a running native hook function rely on.
LEMMA Runs ==
  ASSUME Inv, calls # <<>>, Current.at # "idle"
  PROVE  /\ Current.running \in HookIds /\ Current.running # NoHook /\ Current.running \in Current.todo
         /\ hook[Current.running].fn = Current.fn
         /\ UsesData(Current) => Current.running \in listed
<1> DEFINE c == Current
<1>1. c \in Frames /\ Sound(c, hook, scheduled, listed, stage) /\ c.at # "idle"
  BY TopFrame
<1> HIDE DEF c
<1>2. c.running \in HookIds /\ c.running # NoHook /\ c.running \in c.todo
  BY <1>1 DEF Sound, HookIds
<1>3. hook[c.running].fn = c.fn /\ (UsesData(c) => c.running \in listed)
  BY <1>1, <1>2 DEF Sound
<1> QED
  BY <1>2, <1>3 DEF c

\* The innermost call passes a hook.
LEMMA PassedOver ==
  ASSUME Inv, calls # <<>>, NEW h, Current.running \in {NoHook, h}, NEW lst, lst \subseteq listed,
         Current.phase = "post" => h \notin Current.marked \cap lst \/ stage[hook[h].mod] # "open"
  PROVE  /\ Passed(Current, h) \in Frames
         /\ Passed(Current, h).fn = Current.fn /\ Passed(Current, h).phase = Current.phase
         /\ Passed(Current, h).running = NoHook /\ Passed(Current, h).at = "idle"
         /\ Sound(Passed(Current, h), hook, scheduled, lst, stage)
<1> DEFINE c == Current
           d == Passed(c, h)
<1>1. c \in Frames /\ Sound(c, hook, scheduled, listed, stage)
  BY TopFrame
<1>2. c.phase = "post" => h \notin c.marked \cap lst \/ stage[hook[h].mod] # "open"
  OBVIOUS
<1> HIDE DEF c
<1>3. /\ d \in Frames /\ d.fn = c.fn /\ d.phase = c.phase /\ d.todo = c.todo \ {h}
      /\ d.running = NoHook /\ d.at = "idle" /\ d.marked = c.marked
  BY <1>1 DEF Passed, Frames, NoHook, Positions
<1> HIDE DEF d
<1>4. Sound(d, hook, scheduled, lst, stage)
  BY <1>1, <1>2, <1>3 DEF Sound, UsesData, InLua, Removing
<1> QED
  BY <1>3, <1>4 DEF c, d

\* An idle call of a blueprint function drops what it had still to fire.
LEMMA Emptied ==
  ASSUME NEW d \in Frames, d.at = "idle", d.phase = "script", Sound(d, hook, scheduled, listed, stage),
         NEW e, e = [d EXCEPT !.todo = {}]
  PROVE  /\ e \in Frames /\ e.fn = d.fn /\ e.phase = d.phase /\ e.at = "idle"
         /\ Sound(e, hook, scheduled, listed, stage)
<1>1. /\ e \in Frames /\ e.fn = d.fn /\ e.phase = d.phase /\ e.todo = {}
      /\ e.running = d.running /\ e.at = "idle" /\ e.marked = d.marked
  BY DEF Frames
<1> QED
  BY <1>1 DEF Sound, UsesData, InLua, Removing

\* The innermost call starts a hook function, or script_hook a callback.
LEMMA Started ==
  ASSUME Inv, calls # <<>>, NEW h \in Current.todo, NEW p \in {"check", "lua"},
         p = "lua" <=> Current.phase = "script",
         p = "check" => h \in listed /\ stage[hook[h].mod] \in {"open", "unhook"}
  PROVE  /\ Starts(Current, h, p) \in Frames
         /\ Starts(Current, h, p).fn = Current.fn /\ Starts(Current, h, p).phase = Current.phase
         /\ Starts(Current, h, p).at \notin Ends
         /\ Sound(Starts(Current, h, p), hook, scheduled, listed, stage)
<1> DEFINE c == Current
           d == Starts(c, h, p)
<1>1. c \in Frames /\ Sound(c, hook, scheduled, listed, stage) /\ h \in c.todo /\ (p = "lua" <=> c.phase = "script")
      /\ Len(hook) \in Nat
  BY TopFrame
<1> HIDE DEF c
<1>2. /\ d \in Frames /\ d.fn = c.fn /\ d.phase = c.phase /\ d.todo = c.todo
      /\ d.running = h /\ d.at = p /\ d.marked = c.marked
  BY <1>1 DEF Starts, Frames, Positions
<1>3. h \in 1 .. Len(hook) /\ h # NoHook
  BY <1>1 DEF Sound, NoHook
<1> HIDE DEF d
<1>4. stage[hook[h].mod] \in {"open", "unhook"} /\ (p = "lua" => stage[hook[h].mod] = "open")
  BY <1>1 DEF Sound
<1>5. Sound(d, hook, scheduled, listed, stage)
  BY <1>1, <1>2, <1>3, <1>4 DEF Sound, UsesData, InLua, Removing
<1> QED
  BY <1>2, <1>5 DEF c, d, Ends

\* The hook function that runs in the innermost call moves to its next position.
LEMMA Moved ==
  ASSUME Inv, calls # <<>>, Current.at # "idle", Current.phase # "script", Current.running \in listed,
         NEW p \in Positions \ {"idle"}, p \in InLua => stage[hook[Current.running].mod] = "open",
         p \in Removing => Current.phase = "post" /\ Current.running \in scheduled
  PROVE  LET d == [Current EXCEPT !.at = p] IN
         /\ d \in Frames /\ d.fn = Current.fn /\ d.phase = Current.phase
         /\ d.running = Current.running /\ d.at = p
         /\ Sound(d, hook, scheduled, listed, stage)
<1> DEFINE c == Current
           d == [c EXCEPT !.at = p]
<1>1. c \in Frames /\ Sound(c, hook, scheduled, listed, stage)
  BY TopFrame
<1>2. /\ c.at # "idle" /\ c.phase # "script" /\ c.running \in listed
      /\ p \in InLua => stage[hook[c.running].mod] = "open"
      /\ p \in Removing => c.phase = "post" /\ c.running \in scheduled
  OBVIOUS
<1> HIDE DEF c
<1>3. /\ d \in Frames /\ d.fn = c.fn /\ d.phase = c.phase /\ d.todo = c.todo
      /\ d.running = c.running /\ d.at = p /\ d.marked = c.marked
  BY <1>1 DEF Frames
<1> HIDE DEF d
<1>4. Sound(d, hook, scheduled, listed, stage)
  BY <1>1, <1>2, <1>3 DEF Sound, UsesData
<1> QED
  BY <1>3, <1>4 DEF c, d

LEMMA ContinueKeeps ==
  ASSUME Inv, calls # <<>>, UNCHANGED <<registry, stage>>,
         NEW c \in Frames, c.fn = Current.fn, c.phase = "script" <=> Current.phase = "script",
         Sound(c, hook, scheduled, listed, stage), ContinueWith(c), Current.at \notin Ends, c.at \notin Ends
  PROVE  Inv'
<1>1. \A i \in 1 .. Len(calls) : Sound(calls[i], hook', scheduled', listed', stage')
  BY DEF Inv, Stacked, registry
<1>2. Sound(c, hook', scheduled', listed', stage') /\ UNCHANGED stage
  BY DEF registry
<1>3. /\ Stacked'
      /\ \A h : \A p \in Ends : At(calls, h, p) <=> Current.running = h /\ Current.at = p
      /\ \A h : \A p \in Ends : At(calls', h, p) <=> c.running = h /\ c.at = p
  BY <1>1, <1>2, TopReplaced DEF Inv
<1>4. (Registered /\ Staged /\ Grouped)' /\ Removals'
  BY <1>3, RegistryStays, RemovalsStay DEF Inv
<1> QED
  BY <1>3, <1>4 DEF Inv

LEMMA MoveKeeps ==
  ASSUME Inv, calls # <<>>, UNCHANGED <<registry, stage>>, Current.at # "idle", Current.at \notin Ends,
         UsesData(Current), NEW p \in Positions \ ({"idle"} \cup Ends), Moves(p),
         p \in InLua => stage[hook[Current.running].mod] = "open",
         p \in Removing => Current.phase = "post" /\ Current.running \in scheduled
  PROVE  Inv'
<1>1. Current.running \in listed /\ Current.phase # "script"
  BY Runs DEF UsesData
<1>2. ContinueWith([Current EXCEPT !.at = p])
  BY DEF Moves
<1> QED
  BY <1>1, <1>2, Moved, ContinueKeeps

LEMMA LeaveKeeps ==
  ASSUME Inv, calls # <<>>, UNCHANGED <<registry, stage>>, Current.at \notin Ends, Leaves,
         Current.phase = "post" => Current.running \notin Current.marked \cap listed
  PROVE  Inv'
<1>1. ContinueWith(Passed(Current, Current.running)) /\ "idle" \notin Ends
  BY DEF Leaves, Ends
<1>2. listed \subseteq listed
  OBVIOUS
<1> QED
  BY <1>1, <1>2, PassedOver, ContinueKeeps

\* An idle innermost call runs no hook, and the other way round.
LEMMA Idle ==
  ASSUME Inv, calls # <<>>
  PROVE  /\ Current.running = NoHook <=> Current.at = "idle"
         /\ Current.todo = {} => Current.at = "idle"
BY TopFrame DEF Sound

LEMMA FireNativeKeeps ==
  ASSUME Inv, NEW h \in HookIds, FireNative(h)
  PROVE  Inv'
<1>1. /\ calls # <<>> /\ Current.phase \in {"pre", "post"} /\ Current.running = NoHook /\ h \in Current.todo
      /\ UNCHANGED <<registry, stage>>
  BY DEF FireNative, Fires, IsFirst
<1>2. Current.at = "idle" /\ Current.at \notin Ends
  BY <1>1, Idle DEF Ends
<1>3. CASE h \notin hooked
  <2>1. ContinueWith(Passed(Current, h))
    BY <1>3 DEF FireNative
  <2>2. h \in listed => stage[hook[h].mod] # "open"
    <3>1. \A p \in Ends : ~At(calls, h, p)
      BY <1>1, <1>2, OnTop DEF Inv, Stacked, Current
    <3> QED
      BY <1>3, <3>1 DEF Inv, Removals
  <2>3. listed \subseteq listed /\ "idle" \notin Ends
    BY DEF Ends
  <2> QED
    BY <1>1, <1>2, <2>1, <2>2, <2>3, PassedOver, ContinueKeeps
<1>4. CASE h \in hooked
  <2>1. ContinueWith(Starts(Current, h, "check"))
    BY <1>4 DEF FireNative
  <2>2. h \in listed /\ stage[hook[h].mod] \in {"open", "unhook"}
    BY <1>4 DEF Inv, Registered, Staged
  <2> QED
    BY <1>1, <1>2, <2>1, <2>2, Started, ContinueKeeps
<1> QED
  BY <1>3, <1>4

LEMMA FireScriptKeeps ==
  ASSUME Inv, NEW h \in HookIds, FireScript(h)
  PROVE  Inv'
<1>1. calls # <<>> /\ Current.phase = "script" /\ Current.running = NoHook /\ h \in Current.todo /\ UNCHANGED <<registry, stage>>
  BY DEF FireScript, Fires, IsFirst
<1>2. Current.at \notin Ends
  BY <1>1, Idle DEF Ends
<1>3. CASE h \in dropped
  <2>1. ContinueWith(Passed(Current, h))
    BY <1>3 DEF FireScript
  <2>2. listed \subseteq listed /\ "idle" \notin Ends
    BY DEF Ends
  <2> QED
    BY <1>1, <1>2, <2>1, <2>2, PassedOver, ContinueKeeps
<1>4. CASE h \notin dropped
  <2>1. ContinueWith(Starts(Current, h, "lua"))
    BY <1>4 DEF FireScript
  <2> QED
    BY <1>1, <1>2, <2>1, Started, ContinueKeeps
<1> QED
  BY <1>3, <1>4

\* The flag of data that exists is what UnregisterHook and uninstall made it.
LEMMA FlagRead ==
  ASSUME Inv, calls # <<>>, UsesData(Current), NEW flag \in Scheduled(Current.running)
  PROVE  /\ flag <=> Current.running \in scheduled
         /\ ~flag => stage[hook[Current.running].mod] = "open"
<1>1. Current.running \in listed
  BY Runs DEF UsesData
<1> QED
  BY <1>1 DEF Scheduled, Inv, Staged

LEMMA PreChecksKeeps ==
  ASSUME Inv, PreChecks
  PROVE  Inv'
<1>1. calls # <<>> /\ Current.phase = "pre" /\ Current.at = "check" /\ UNCHANGED <<registry, stage>>
  BY DEF PreChecks, IsAt
<1>2. UsesData(Current) /\ Current.at # "idle" /\ Current.at \notin Ends
  BY <1>1 DEF UsesData, Ends
<1>3. PICK flag \in Scheduled(Current.running) : IF flag THEN Leaves ELSE Moves("enter")
  BY DEF PreChecks
<1>4. CASE flag
  BY <1>1, <1>2, <1>3, <1>4, LeaveKeeps
<1>5. CASE ~flag
  <2>1. stage[hook[Current.running].mod] = "open"
    BY <1>1, <1>2, <1>5, FlagRead
  <2> QED
    BY <1>1, <1>2, <1>3, <1>5, <2>1, MoveKeeps DEF Positions, Ends, InLua, Removing
<1> QED
  BY <1>4, <1>5

LEMMA EntersKeeps ==
  ASSUME Inv, Enters
  PROVE  Inv'
<1>1. calls # <<>> /\ Current.phase \in {"pre", "post"} /\ Current.at = "enter" /\ Moves("lua") /\ UNCHANGED <<registry, stage>>
  BY DEF Enters, IsAt
<1>2. UsesData(Current) /\ Current.at # "idle" /\ Current.at \notin Ends
  BY <1>1 DEF UsesData, Ends
<1>3. stage[hook[Current.running].mod] = "open"
  BY <1>1, TopFrame DEF Sound, InLua
<1> QED
  BY <1>1, <1>2, <1>3, MoveKeeps DEF Positions, Ends, Removing

LEMMA PreReturnsKeeps ==
  ASSUME Inv, PreReturns
  PROVE  Inv'
BY LeaveKeeps DEF PreReturns, IsAt, Ends

LEMMA ScriptReturnsKeeps ==
  ASSUME Inv, ScriptReturns
  PROVE  Inv'
<1>1. calls # <<>> /\ Current.phase = "script" /\ Current.at = "lua" /\ UNCHANGED <<registry, stage>>
  BY DEF ScriptReturns, IsAt
<1>2. Current.at \notin Ends
  BY <1>1 DEF Ends
<1> DEFINE d == Passed(Current, Current.running)
<1>3. /\ d \in Frames /\ d.fn = Current.fn /\ d.phase = Current.phase /\ d.at = "idle"
      /\ Sound(d, hook, scheduled, listed, stage)
  <2>1. listed \subseteq listed
    OBVIOUS
  <2> QED
    BY <1>1, <2>1, PassedOver
<1>4. "idle" \notin Ends
  BY DEF Ends
<1>5. ContinueWith(d) \/ ContinueWith([d EXCEPT !.todo = {}])
  BY DEF ScriptReturns, Leaves
<1> HIDE DEF d
<1>6. CASE ContinueWith(d)
  BY <1>1, <1>2, <1>3, <1>4, <1>6, ContinueKeeps
<1>7. CASE ContinueWith([d EXCEPT !.todo = {}])
  <2> DEFINE e == [d EXCEPT !.todo = {}]
  <2>1. /\ e \in Frames /\ e.fn = d.fn /\ e.phase = d.phase /\ e.at = "idle"
        /\ Sound(e, hook, scheduled, listed, stage)
    BY <1>1, <1>3, Emptied
  <2>2. ContinueWith(e)
    BY <1>7
  <2> HIDE DEF e
  <2> QED
    BY <1>1, <1>2, <1>3, <1>4, <2>1, <2>2, ContinueKeeps
<1> QED
  BY <1>5, <1>6, <1>7

LEMMA PreEndsKeeps ==
  ASSUME Inv, PreEnds
  PROVE  Inv'
<1> DEFINE c == Current
           d == [c EXCEPT !.phase = "post", !.todo = CallbacksOf(c.fn)]
<1>1. calls # <<>> /\ c.phase = "pre" /\ c.todo = {} /\ ContinueWith(d) /\ UNCHANGED <<registry, stage>>
  BY DEF PreEnds
<1>2. c \in Frames /\ Sound(c, hook, scheduled, listed, stage) /\ Len(hook) \in Nat /\ c.at = "idle" /\ c.running = NoHook
  BY <1>1, TopFrame, Idle
<1>3. CallbacksOf(c.fn) \subseteq 1 .. Len(hook) /\ CallbacksOf(c.fn) \subseteq Nat
  <2>1. hooked \subseteq 1 .. Len(hook) /\ hooked \subseteq Nat
    BY Identifiers DEF HookIds
  <2> QED
    BY <2>1 DEF CallbacksOf
<1>4. \A h \in listed : stage[hook[h].mod] = "open" => h \in hooked
  <2>1. \A h : \A p \in Ends : ~At(calls, h, p)
    BY <1>1, <1>2, OnTop DEF Inv, Stacked, Current, Ends
  <2> QED
    BY <2>1 DEF Inv, Removals
<1>5. c.fn = Current.fn /\ (c.phase = "script" <=> Current.phase = "script") /\ Current.at \notin Ends
  BY <1>2 DEF Ends
<1> HIDE DEF c
<1>6. /\ d \in Frames /\ d.fn = c.fn /\ d.phase = "post" /\ d.todo = CallbacksOf(c.fn)
      /\ d.running = c.running /\ d.at = c.at /\ d.marked = c.marked
  BY <1>2, <1>3 DEF Frames
<1> HIDE DEF d
<1>7. Sound(d, hook, scheduled, listed, stage)
  BY <1>1, <1>2, <1>3, <1>4, <1>6 DEF Sound, CallbacksOf, UsesData, InLua, Removing
<1>8. d.fn = Current.fn /\ (d.phase = "script" <=> Current.phase = "script") /\ d.at \notin Ends
  BY <1>1, <1>2, <1>5, <1>6 DEF Ends
<1> QED
  BY <1>1, <1>5, <1>6, <1>7, <1>8, ContinueKeeps

LEMMA ReturnKeeps ==
  ASSUME Inv, PostEnds \/ ScriptEnds
  PROVE  Inv'
<1>1. calls # <<>> /\ Current.todo = {} /\ Return /\ UNCHANGED <<registry, stage>>
  BY DEF PostEnds, ScriptEnds
<1>2. Current.at = "idle"
  BY <1>1, Idle
<1>3. Stacked' /\ \A h : \A p \in Ends : At(calls', h, p) <=> At(calls, h, p)
  BY <1>1, <1>2, CallReturned DEF Inv
<1>4. (Registered /\ Staged /\ Grouped)' /\ Removals'
  BY <1>1, <1>3, RegistryStays, RemovalsStay DEF Inv
<1> QED
  BY <1>3, <1>4 DEF Inv

LEMMA PostChecksKeeps ==
  ASSUME Inv, PostChecks
  PROVE  Inv'
<1>1. calls # <<>> /\ Current.phase = "post" /\ Current.at = "check" /\ UNCHANGED <<registry, stage>>
  BY DEF PostChecks, IsAt
<1>2. UsesData(Current) /\ Current.at # "idle" /\ Current.at \notin Ends
  BY <1>1 DEF UsesData, Ends
<1>3. PICK flag \in Scheduled(Current.running) :
        IF flag THEN Moves("unhook") ELSE IF hook[Current.running].post THEN Moves("enter") ELSE Moves("again")
  BY DEF PostChecks
<1>4. CASE flag
  <2>1. Current.running \in scheduled
    BY <1>1, <1>2, <1>4, FlagRead
  <2> QED
    BY <1>1, <1>2, <1>3, <1>4, <2>1, MoveKeeps DEF Positions, Ends, InLua
<1>5. CASE ~flag
  <2>1. stage[hook[Current.running].mod] = "open"
    BY <1>1, <1>2, <1>5, FlagRead
  <2>2. Moves("enter") \/ Moves("again")
    BY <1>3, <1>5
  <2> QED
    BY <1>1, <1>2, <2>1, <2>2, MoveKeeps DEF Positions, Ends, Removing
<1> QED
  BY <1>4, <1>5

LEMMA PostReturnsKeeps ==
  ASSUME Inv, PostReturns
  PROVE  Inv'
<1>1. calls # <<>> /\ Current.phase = "post" /\ Current.at = "lua" /\ Moves("again") /\ UNCHANGED <<registry, stage>>
  BY DEF PostReturns, IsAt
<1>2. UsesData(Current) /\ Current.at # "idle" /\ Current.at \notin Ends
  BY <1>1 DEF UsesData, Ends
<1>3. stage[hook[Current.running].mod] = "open"
  BY <1>1, TopFrame DEF Sound, InLua
<1> QED
  BY <1>1, <1>2, <1>3, MoveKeeps DEF Positions, Ends, Removing

LEMMA PostChecksAgainKeeps ==
  ASSUME Inv, PostChecksAgain
  PROVE  Inv'
<1>1. calls # <<>> /\ Current.phase = "post" /\ Current.at = "again" /\ UNCHANGED <<registry, stage>>
  BY DEF PostChecksAgain, IsAt
<1>2. UsesData(Current) /\ Current.at # "idle" /\ Current.at \notin Ends
  BY <1>1 DEF UsesData, Ends
<1>3. PICK flag \in Scheduled(Current.running) : IF flag THEN Moves("unhook") ELSE Leaves
  BY DEF PostChecksAgain
<1>4. flag <=> Current.running \in scheduled
  BY <1>1, <1>2, FlagRead
<1>5. CASE flag
  BY <1>1, <1>2, <1>3, <1>4, <1>5, MoveKeeps DEF Positions, Ends, InLua
<1>6. CASE ~flag
  <2>1. Current.marked \subseteq scheduled
    BY <1>1, TopFrame DEF Sound
  <2> QED
    BY <1>1, <1>2, <1>3, <1>4, <1>6, <2>1, LeaveKeeps
<1> QED
  BY <1>5, <1>6
-----------------------------------------------------------------------------
(* The steps of a removal by the post hook.                                *)

LEMMA PostUnhooksKeeps ==
  ASSUME Inv, PostUnhooks
  PROVE  Inv'
<1> DEFINE h == Current.running
           d == [Current EXCEPT !.at = "unref"]
<1>1. /\ calls # <<>> /\ Current.phase = "post" /\ Current.at = "unhook" /\ ContinueWith(d) /\ HookIds' = HookIds
      /\ hooked' = hooked \ {h}
      /\ UNCHANGED <<hook, listed, scheduled, groups, owner, dropped, released, stage>>
  BY DEF PostUnhooks, IsAt, Moves, HookIds
<1>2. h \in listed /\ h \in scheduled
  BY <1>1, Runs, TopFrame DEF UsesData, Sound, Removing
<1>3. /\ d \in Frames /\ d.fn = Current.fn /\ d.phase = Current.phase /\ d.running = h /\ d.at = "unref"
      /\ Sound(d, hook, scheduled, listed, stage)
  BY <1>1, <1>2, Moved DEF Positions, InLua
<1> HIDE DEF d
<1>4. \A i \in 1 .. Len(calls) : Sound(calls[i], hook', scheduled', listed', stage')
  BY <1>1 DEF Inv, Stacked
<1>5. Sound(d, hook', scheduled', listed', stage')
  BY <1>1, <1>3
<1>6. /\ Stacked'
      /\ \A k : \A p \in Ends : At(calls, k, p) <=> h = k /\ Current.at = p
      /\ \A k : \A p \in Ends : At(calls', k, p) <=> d.running = k /\ d.at = p
  BY <1>1, <1>3, <1>4, <1>5, TopReplaced DEF Inv
<1>7. \A k : At(calls', k, "unref") <=> k = h
  BY <1>3, <1>6 DEF Ends
<1>8. \A k : ~At(calls, k, "unref") /\ ~At(calls, k, "erase") /\ ~At(calls', k, "erase")
  BY <1>1, <1>3, <1>6 DEF Ends
<1> HIDE DEF h
<1>9. Registered'
  BY <1>1 DEF Inv, Registered
<1>10. Staged'
  BY <1>1 DEF Inv, Staged
<1>11. Grouped'
  BY <1>1 DEF Inv, Grouped
<1>12. Removals'
  <2>1. \A k : IsErased(k)' <=> IsErased(k)
    BY <1>1, <1>8 DEF IsErased, At
  <2>2. ReleasedOnce'
    BY <1>1, <2>1 DEF Inv, Removals, ReleasedOnce
  <2>3. \A k \in listed : k \in hooked \/ stage[hook[k].mod] \in {"close", "erase"}
    BY <1>8 DEF Inv, Removals, Ends
  <2>4. \A k \in listed' : k \in hooked' \/ stage'[hook'[k].mod] \in {"close", "erase"} \/ At(calls', k, "unref")
    BY <1>1, <1>7, <2>3
  <2>5. \A k \in hooked' : ~At(calls', k, "unref") /\ ~At(calls', k, "erase")
    BY <1>1, <1>7, <1>8
  <2> QED
    BY <2>2, <2>4, <2>5 DEF Removals, Ends
<1> QED
  BY <1>6, <1>9, <1>10, <1>11, <1>12 DEF Inv

LEMMA PostReleasesKeeps ==
  ASSUME Inv, PostReleases
  PROVE  Inv'
<1> DEFINE h == Current.running
           d == [Current EXCEPT !.at = "erase"]
<1>1. /\ calls # <<>> /\ Current.phase = "post" /\ Current.at = "unref" /\ ContinueWith(d) /\ HookIds' = HookIds
      /\ released' = [released EXCEPT ![h] = @ + 1]
      /\ UNCHANGED <<hook, listed, hooked, scheduled, groups, owner, dropped, stage>>
  BY DEF PostReleases, IsAt, Moves, HookIds
<1>2. h \in listed /\ h \in scheduled /\ h \in HookIds
  BY <1>1, Runs, TopFrame DEF UsesData, Sound, Removing
<1>3. /\ d \in Frames /\ d.fn = Current.fn /\ d.phase = Current.phase /\ d.running = h /\ d.at = "erase"
      /\ Sound(d, hook, scheduled, listed, stage)
  BY <1>1, <1>2, Moved DEF Positions, InLua
<1>4. stage[hook[h].mod] # "erase"
  BY <1>1, TopFrame DEF Sound
<1> HIDE DEF d
<1>5. \A i \in 1 .. Len(calls) : Sound(calls[i], hook', scheduled', listed', stage')
  BY <1>1 DEF Inv, Stacked
<1>6. Sound(d, hook', scheduled', listed', stage')
  BY <1>1, <1>3
<1>7. /\ Stacked'
      /\ \A k : \A p \in Ends : At(calls, k, p) <=> h = k /\ Current.at = p
      /\ \A k : \A p \in Ends : At(calls', k, p) <=> d.running = k /\ d.at = p
  BY <1>1, <1>3, <1>5, <1>6, TopReplaced DEF Inv
<1>8. \A k : /\ At(calls, k, "unref") <=> k = h
             /\ ~At(calls, k, "erase")
             /\ ~At(calls', k, "unref")
             /\ At(calls', k, "erase") <=> k = h
  BY <1>1, <1>3, <1>7 DEF Ends
<1> HIDE DEF h
<1>9. released[h] = 0 /\ hook[h].fn \in Native
  <2>1. ~IsErased(h)
    BY <1>4, <1>8 DEF IsErased, At
  <2> QED
    BY <1>2, <2>1 DEF Inv, Registered, Removals, ReleasedOnce
<1>10. /\ released' \in Seq(Nat) /\ Len(released') = Len(released)
       /\ \A k \in HookIds : released'[k] = IF k = h THEN 1 ELSE released[k]
  <2>1. released \in Seq(Nat) /\ HookIds = 1 .. Len(released)
    BY DEF Inv, Registered, HookIds
  <2>2. released[h] + 1 = 1
    BY <1>9
  <2>3. 1 \in Nat /\ released' = [released EXCEPT ![h] = 1]
    BY <1>1, <2>2
  <2> QED
    BY <1>2, <2>1, <2>3, ExceptSeq
<1>11. Registered'
  BY <1>1, <1>10 DEF Inv, Registered
<1>12. Staged'
  BY <1>1 DEF Inv, Staged
<1>13. Grouped'
  BY <1>1 DEF Inv, Grouped
<1>14. Removals'
  <2>1. \A k : k # h => (IsErased(k)' <=> IsErased(k))
    BY <1>1, <1>8 DEF IsErased, At
  <2>2. \A k : k = h => IsErased(k)'
    BY <1>8 DEF IsErased, At
  <2>3. \A k \in HookIds : hook[k].fn \in Native => released'[k] = IF k \in listed /\ ~IsErased(k)' THEN 0 ELSE 1
    BY <1>10, <2>1, <2>2 DEF Inv, Removals, ReleasedOnce
  <2>4. ReleasedOnce'
    BY <1>1, <2>3 DEF ReleasedOnce
  <2>5. \A k \in listed' : k \in hooked' \/ stage'[hook'[k].mod] \in {"close", "erase"} \/ At(calls', k, "erase")
    BY <1>1, <1>8 DEF Inv, Removals, Ends
  <2>6. \A k \in hooked' : ~At(calls', k, "unref") /\ ~At(calls', k, "erase")
    BY <1>1, <1>8 DEF Inv, Removals, Ends
  <2> QED
    BY <2>4, <2>5, <2>6 DEF Removals, Ends
<1> QED
  BY <1>7, <1>11, <1>12, <1>13, <1>14 DEF Inv

LEMMA PostErasesKeeps ==
  ASSUME Inv, PostErases
  PROVE  Inv'
<1> DEFINE h == Current.running
           d == Passed(Current, h)
<1>1. /\ calls # <<>> /\ Current.phase = "post" /\ Current.at = "erase" /\ ContinueWith(d) /\ HookIds' = HookIds
      /\ listed' = listed \ {h}
      /\ UNCHANGED <<hook, hooked, scheduled, groups, owner, dropped, released, stage>>
  BY DEF PostErases, IsAt, Leaves, HookIds
<1>2. h \in listed /\ h \in scheduled /\ h \in HookIds /\ h # NoHook /\ hook[h].fn = Current.fn
  BY <1>1, Runs, TopFrame DEF UsesData, Sound, Removing
<1>3. /\ d \in Frames /\ d.fn = Current.fn /\ d.phase = Current.phase /\ d.running = NoHook /\ d.at = "idle"
      /\ Sound(d, hook, scheduled, listed', stage)
  <2>1. listed' \subseteq listed /\ h \notin listed' /\ Current.running \in {NoHook, h}
    BY <1>1
  <2>2. h \notin Current.marked \cap listed'
    BY <2>1
  <2> HIDE DEF h, d
  <2>3. /\ Passed(Current, h) \in Frames
        /\ Passed(Current, h).fn = Current.fn /\ Passed(Current, h).phase = Current.phase
        /\ Passed(Current, h).running = NoHook /\ Passed(Current, h).at = "idle"
        /\ Sound(Passed(Current, h), hook, scheduled, listed', stage)
    BY <1>1, <2>1, <2>2, PassedOver
  <2> QED
    BY <2>3 DEF d
<1> HIDE DEF d
<1>4. \A i \in 1 .. Len(calls) : i # Len(calls) => Sound(calls[i], hook', scheduled', listed', stage')
  <2> SUFFICES ASSUME NEW i \in 1 .. Len(calls), i # Len(calls) PROVE Sound(calls[i], hook, scheduled, listed', stage)
    BY <1>1
  <2>1. Sound(calls[i], hook, scheduled, listed, stage) /\ Len(calls) \in Nat /\ calls[i].at = "lua"
    BY LenProperties DEF Inv, Stacked
  <2>2. calls[i].phase = "post" => calls[i].fn # hook[h].fn
    <3>1. i < Len(calls) /\ Len(calls) \in 1 .. Len(calls)
      BY <2>1
    <3> QED
      BY <1>2, <3>1 DEF Inv, Stacked, Current
  <2>3. calls[i].phase = "post" => calls[i].running # h
    BY <1>2, <2>1, <2>2 DEF Sound
  <2>4. UsesData(calls[i]) => calls[i].running \in listed /\ calls[i].phase = "post"
    <3>1. calls[i] \in Frames
      BY ElementOfSeq DEF Inv, Stacked
    <3> QED
      BY <2>1, <3>1 DEF Sound, UsesData, Frames
  <2>5. UsesData(calls[i]) => calls[i].running \in listed'
    BY <1>1, <2>3, <2>4
  <2>6. listed' \subseteq listed
    BY <1>1
  <2> QED
    BY <2>1, <2>5, <2>6 DEF Sound
<1>5. Sound(d, hook', scheduled', listed', stage')
  BY <1>1, <1>3
<1>6. /\ Stacked'
      /\ \A k : \A p \in Ends : At(calls, k, p) <=> h = k /\ Current.at = p
      /\ \A k : \A p \in Ends : At(calls', k, p) <=> d.running = k /\ d.at = p
  BY <1>1, <1>3, <1>4, <1>5, TopReplaced DEF Inv
<1>7. \A k : /\ At(calls, k, "erase") <=> k = h
             /\ ~At(calls, k, "unref")
             /\ ~At(calls', k, "unref") /\ ~At(calls', k, "erase")
  BY <1>1, <1>3, <1>6 DEF Ends
<1> HIDE DEF h
<1>8. h \notin hooked /\ released[h] = 1
  <2>1. IsErased(h)
    BY <1>7 DEF IsErased, At
  <2>2. hook[h].fn \in Native
    BY <1>2 DEF Inv, Registered
  <2> QED
    BY <1>2, <1>7, <2>1, <2>2 DEF Inv, Removals, ReleasedOnce, Ends
<1>9. Registered'
  BY <1>1, <1>8 DEF Inv, Registered
<1>10. Staged'
  BY <1>1, <1>2 DEF Inv, Staged
<1>11. Grouped'
  BY <1>1 DEF Inv, Grouped
<1>12. Removals'
  <2>1. \A k : k # h => (IsErased(k)' <=> IsErased(k))
    BY <1>1, <1>7 DEF IsErased, At
  <2>2. \A k \in HookIds : hook[k].fn \in Native => released[k] = IF k \in listed' /\ ~IsErased(k)' THEN 0 ELSE 1
    BY <1>1, <1>8, <2>1 DEF Inv, Removals, ReleasedOnce
  <2>3. ReleasedOnce'
    BY <1>1, <2>2 DEF ReleasedOnce
  <2>4. \A k \in listed' : k \in hooked' \/ stage'[hook'[k].mod] \in {"close", "erase"}
    BY <1>1, <1>7 DEF Inv, Removals, Ends
  <2> QED
    BY <1>1, <1>7, <2>3, <2>4 DEF Removals, Ends
<1> QED
  BY <1>6, <1>9, <1>10, <1>11, <1>12 DEF Inv
-----------------------------------------------------------------------------
(* The steps of other threads.  The calls stay as sound as they were.      *)

LEMMA CallsStay ==
  ASSUME Stacked, UNCHANGED calls,
         \A i \in 1 .. Len(calls) : Sound(calls[i], hook', scheduled', listed', stage'),
         InScriptHook => ~Uninstalling'
  PROVE  Stacked'
BY DEF Stacked, InScriptHook

\* A registration: the new hook comes after the others, which stay what they were.
LEMMA Registers ==
  ASSUME Inv, NEW m \in Mods, NEW f \in Functions, NEW post \in BOOLEAN, Adds(m, f, post)
  PROVE  /\ Len(hook) \in Nat /\ Len(hook) + 1 \notin HookIds /\ HookIds' = HookIds \cup {Len(hook) + 1}
         /\ hook' \in Seq(Hooks) /\ hook'[Len(hook) + 1] = [mod |-> m, fn |-> f, post |-> post]
         /\ \A h \in HookIds : hook'[h] = hook[h]
         /\ released' \in Seq(Nat) /\ Len(released') = Len(hook') /\ released'[Len(hook) + 1] = 0
         /\ \A h \in HookIds : released'[h] = released[h]
<1> DEFINE e == [mod |-> m, fn |-> f, post |-> post]
<1>1. e \in Hooks /\ hook \in Seq(Hooks) /\ released \in Seq(Nat) /\ Len(released) = Len(hook) /\ Len(hook) \in Nat
  BY Identifiers DEF Hooks, Inv, Registered
<1>2. hook' = Append(hook, e) /\ released' = Append(released, 0)
  BY DEF Adds
<1> HIDE DEF e
<1>3. /\ hook' \in Seq(Hooks) /\ Len(hook') = Len(hook) + 1 /\ hook'[Len(hook) + 1] = e
      /\ \A h \in 1 .. Len(hook) : hook'[h] = hook[h]
  BY <1>1, <1>2, AppendProperties
<1>4. /\ released' \in Seq(Nat) /\ Len(released') = Len(hook) + 1 /\ released'[Len(hook) + 1] = 0
      /\ \A h \in 1 .. Len(hook) : released'[h] = released[h]
  BY <1>1, <1>2, AppendProperties
<1>5. Len(hook) + 1 \notin HookIds /\ HookIds' = HookIds \cup {Len(hook) + 1}
  BY <1>1, <1>3 DEF HookIds
<1> QED
  BY <1>1, <1>3, <1>4, <1>5 DEF HookIds, e

LEMMA RegisterKeepsCalls ==
  ASSUME Inv, NEW m \in Mods, NEW f \in Functions, NEW post \in BOOLEAN, Adds(m, f, post),
         UNCHANGED <<scheduled, stage, calls>>, listed' \subseteq listed \cup {Len(hook) + 1}, listed \subseteq listed'
  PROVE  Stacked'
<1>1. /\ Len(hook) \in Nat /\ Len(hook) + 1 \notin HookIds /\ HookIds' = HookIds \cup {Len(hook) + 1}
      /\ \A h \in HookIds : hook'[h] = hook[h]
  BY Registers
<1>2. \A i \in 1 .. Len(calls) : Sound(calls[i], hook', scheduled', listed', stage')
  <2> SUFFICES ASSUME NEW i \in 1 .. Len(calls) PROVE Sound(calls[i], hook', scheduled, listed', stage)
    OBVIOUS
  <2>1. Sound(calls[i], hook, scheduled, listed, stage)
    BY DEF Inv, Stacked
  <2>2. scheduled \subseteq 1 .. Len(hook) /\ listed' \cap (1 .. Len(hook)) \subseteq listed
    BY <1>1, Identifiers DEF HookIds
  <2>3. 1 .. Len(hook) \subseteq 1 .. Len(hook') /\ \A h \in 1 .. Len(hook) : hook'[h] = hook[h]
    BY <1>1 DEF HookIds
  <2>4. /\ calls[i].phase = "script" => \A h \in calls[i].todo : stage[hook[h].mod] = "open"
        /\ calls[i].at \in InLua => stage[hook[calls[i].running].mod] = "open"
        /\ calls[i].at # "idle" => stage[hook[calls[i].running].mod] \in {"open", "unhook", "close"}
        /\ UsesData(calls[i]) => calls[i].running \in listed'
    BY <2>1 DEF Sound
  <2> QED
    BY <2>1, <2>2, <2>3, <2>4, SoundStays
<1>3. InScriptHook => ~Uninstalling'
  BY DEF Inv, Stacked, Uninstalling
<1> QED
  BY <1>2, <1>3, CallsStay DEF Inv

\* Nor does it change how far a removal is.
LEMMA RegisterKeepsRemovals ==
  ASSUME Inv, NEW m \in Mods, NEW f \in Functions, NEW post \in BOOLEAN, Adds(m, f, post), stage[m] = "open",
         UNCHANGED <<stage, calls>>,
         \/ f \in Native /\ listed' = listed \cup {Len(hook) + 1} /\ hooked' = hooked \cup {Len(hook) + 1}
         \/ f \notin Native /\ UNCHANGED <<listed, hooked>>
  PROVE  Removals'
<1> DEFINE n == Len(hook) + 1
<1>1. /\ n \notin HookIds /\ n # NoHook /\ HookIds' = HookIds \cup {n} /\ hook'[n] = [mod |-> m, fn |-> f, post |-> post]
      /\ \A h \in HookIds : hook'[h] = hook[h]
      /\ released'[n] = 0 /\ \A h \in HookIds : released'[h] = released[h]
  BY Registers DEF NoHook
<1>2. hook'[n].mod = m /\ hook'[n].fn = f
  BY <1>1
<1>3. /\ hooked \subseteq HookIds /\ listed \subseteq HookIds
      /\ \/ f \in Native /\ listed' = listed \cup {n} /\ hooked' = hooked \cup {n}
         \/ f \notin Native /\ UNCHANGED <<listed, hooked>>
  BY Identifiers
<1> HIDE DEF n
<1>4. \A q \in Ends : ~At(calls, n, q)
  <2>1. \A i \in 1 .. Len(calls) : calls[i].running \in HookIds \cup {NoHook}
    BY DEF Inv, Stacked, Sound, HookIds
  <2> QED
    BY <1>1, <2>1 DEF At
<1>5. \A h \in HookIds : IsErased(h)' <=> IsErased(h)
  BY <1>1 DEF IsErased
<1>6. \A h : h = n => ~IsErased(h)'
  BY <1>2, <1>4 DEF IsErased, At, Ends
<1>7. ReleasedOnce'
  <2> SUFFICES ASSUME NEW h \in HookIds', hook'[h].fn \in Native
               PROVE  released'[h] = IF h \in listed' /\ ~IsErased(h)' THEN 0 ELSE 1
    BY DEF ReleasedOnce
  <2>1. CASE h = n
    BY <1>1, <1>2, <1>3, <1>6, <2>1
  <2>2. CASE h \in HookIds
    BY <1>1, <1>3, <1>5, <2>2 DEF Inv, Removals, ReleasedOnce
  <2> QED
    BY <1>1, <2>1, <2>2
<1>8. \A h \in listed' : h \in hooked' \/ stage'[hook'[h].mod] \in {"close", "erase"} \/ \E q \in Ends : At(calls, h, q)
  BY <1>1, <1>3 DEF Inv, Removals
<1>9. \A h \in hooked' : \A q \in Ends : ~At(calls, h, q)
  BY <1>3, <1>4 DEF Inv, Removals
<1> QED
  BY <1>7, <1>8, <1>9 DEF Removals

LEMMA RegisterNativeKeeps ==
  ASSUME Inv, NEW m \in Mods, NEW f \in Native, NEW post \in BOOLEAN, RegisterNative(m, f, post)
  PROVE  Inv'
<1> DEFINE n == Len(hook) + 1
<1>1. /\ Adds(m, f, post) /\ listed' = listed \cup {n} /\ hooked' = hooked \cup {n} /\ stage[m] = "open"
      /\ UNCHANGED <<scheduled, groups, owner, dropped, stage, calls>>
  BY DEF RegisterNative, CanAsk
<1>2. f \in Functions /\ f \notin Script
  BY HooksAssumption DEF Functions
<1>3. /\ n \notin HookIds /\ HookIds' = HookIds \cup {n}
      /\ hook' \in Seq(Hooks) /\ hook'[n] = [mod |-> m, fn |-> f, post |-> post]
      /\ \A h \in HookIds : hook'[h] = hook[h]
      /\ released' \in Seq(Nat) /\ Len(released') = Len(hook') /\ released'[n] = 0
      /\ \A h \in HookIds : released'[h] = released[h]
  BY <1>1, <1>2, Registers
<1>4. hook'[n].mod = m /\ hook'[n].fn = f
  BY <1>3
<1> HIDE DEF n
<1>5. Registered'
  BY <1>1, <1>3, <1>4 DEF Inv, Registered
<1>6. Removals'
  BY <1>1, <1>2, RegisterKeepsRemovals DEF n
<1>7. Staged'
  BY <1>1, <1>3, <1>4 DEF Inv, Staged, Registered
<1>8. Grouped'
  <2>1. /\ groups \in [Script -> SUBSET HookIds]
        /\ \A s \in Script : \A h \in groups[s] : h \in HookIds /\ hook[h].fn = s /\ hook[h].mod \in owner[s]
        /\ \A s \in Script : \A k \in owner[s] :
             stage[k] = "open" /\ \E h \in HookIds : hook[h].fn = s /\ hook[h].mod = k
    BY DEF Inv, Grouped
  <2>2. groups' \in [Script -> SUBSET HookIds'] /\ owner' \in [Script -> SUBSET Mods]
    BY <1>1, <1>3, <2>1 DEF Inv, Grouped
  <2>3. \A s \in Script : \A h \in groups'[s] : hook'[h].fn = s /\ hook'[h].mod \in owner'[s]
    BY <1>1, <1>3, <2>1
  <2>4. \A s \in Script : \A k \in owner'[s] :
          stage'[k] = "open" /\ \E h \in HookIds' : hook'[h].fn = s /\ hook'[h].mod = k
    BY <1>1, <1>3, <2>1
  <2>5. \A h, k \in HookIds' : hook'[h].fn = hook'[k].fn /\ hook'[h].fn \in Script => hook'[h].mod = hook'[k].mod
    BY <1>2, <1>3, <1>4 DEF Inv, Grouped
  <2>6. \A h \in HookIds' : hook'[h].fn \in Script /\ stage'[hook'[h].mod] = "open" => h \in groups'[hook'[h].fn]
    BY <1>1, <1>2, <1>3, <1>4 DEF Inv, Grouped
  <2> QED
    BY <2>2, <2>3, <2>4, <2>5, <2>6 DEF Grouped
<1>9. Stacked'
  BY <1>1, <1>2, RegisterKeepsCalls DEF n
<1> QED
  BY <1>5, <1>6, <1>7, <1>8, <1>9 DEF Inv

LEMMA RegisterScriptKeeps ==
  ASSUME Bounds, Inv, NEW m \in Mods, NEW f \in Script, RegisterScript(m, f)
  PROVE  Inv'
<1> DEFINE n == Len(hook) + 1
<1>1. /\ Adds(m, f, FALSE) /\ groups' = [groups EXCEPT ![f] = @ \cup {n}]
      /\ owner' = [owner EXCEPT ![f] = IF @ = {} THEN {m} ELSE @] /\ stage[m] = "open"
      /\ \A h \in HookIds : hook[h].fn = f => hook[h].mod = m
      /\ UNCHANGED <<listed, hooked, scheduled, dropped, stage, calls>>
  BY DEF RegisterScript, CanAsk, Bounds
<1>2. f \in Functions /\ f \notin Native
  BY HooksAssumption DEF Functions
<1>3. /\ n \notin HookIds /\ HookIds' = HookIds \cup {n}
      /\ hook' \in Seq(Hooks) /\ hook'[n] = [mod |-> m, fn |-> f, post |-> FALSE]
      /\ \A h \in HookIds : hook'[h] = hook[h]
      /\ released' \in Seq(Nat) /\ Len(released') = Len(hook') /\ released'[n] = 0
      /\ \A h \in HookIds : released'[h] = released[h]
  BY <1>1, <1>2, Registers
<1>4. hook'[n].mod = m /\ hook'[n].fn = f
  BY <1>3
<1> HIDE DEF n
<1>5. Registered'
  BY <1>1, <1>3, <1>4 DEF Inv, Registered
<1>6. Removals'
  <2>1. FALSE \in BOOLEAN /\ UNCHANGED <<listed, hooked>>
    BY <1>1
  <2> QED
    BY <1>1, <1>2, <2>1, RegisterKeepsRemovals
<1>7. Staged'
  <2>1. listed \subseteq HookIds /\ hooked \subseteq HookIds
    BY Identifiers
  <2>2. \A h \in HookIds' : hook'[h].fn \in Native => h \in HookIds /\ hook'[h] = hook[h]
    BY <1>2, <1>3, <1>4
  <2> QED
    BY <1>1, <1>3, <2>1, <2>2 DEF Inv, Staged
<1>8. Grouped'
  <2>1. /\ groups \in [Script -> SUBSET HookIds] /\ owner \in [Script -> SUBSET Mods]
        /\ \A s \in Script : \A h \in groups[s] : h \in HookIds /\ hook[h].fn = s /\ hook[h].mod \in owner[s]
        /\ \A s \in Script : \A k \in owner[s] :
             stage[k] = "open" /\ \E h \in HookIds : hook[h].fn = s /\ hook[h].mod = k
    BY DEF Inv, Grouped
  <2>2. \A k \in owner[f] : k = m
    BY <1>1, <2>1
  <2>3. /\ groups'[f] = groups[f] \cup {n} /\ owner'[f] = {m}
        /\ \A s \in Script : s # f => groups'[s] = groups[s] /\ owner'[s] = owner[s]
    BY <1>1, <2>1, <2>2
  <2>4. groups' \in [Script -> SUBSET HookIds']
    <3>1. groups[f] \cup {n} \subseteq HookIds'
      BY <1>3, <2>1
    <3>2. groups \in [Script -> SUBSET HookIds']
      BY <1>3, <2>1
    <3> QED
      BY <1>1, <3>1, <3>2
  <2>5. owner' \in [Script -> SUBSET Mods]
    <3>1. (IF owner[f] = {} THEN {m} ELSE owner[f]) \subseteq Mods
      BY <2>1
    <3> QED
      BY <1>1, <2>1, <3>1
  <2>6. \A s \in Script : \A h \in groups'[s] : hook'[h].fn = s /\ hook'[h].mod \in owner'[s]
    <3> SUFFICES ASSUME NEW s \in Script, NEW h \in groups'[s] PROVE hook'[h].fn = s /\ hook'[h].mod \in owner'[s]
      OBVIOUS
    <3>1. CASE h = n
      <4>1. s = f
        BY <1>3, <2>1, <2>3, <3>1
      <4> QED
        BY <1>4, <2>3, <3>1, <4>1
    <3>2. CASE h # n
      <4>1. h \in groups[s]
        BY <2>3, <3>2
      <4>2. hook'[h] = hook[h] /\ hook[h].fn = s /\ hook[h].mod \in owner[s]
        BY <1>3, <2>1, <4>1
      <4> QED
        BY <2>2, <2>3, <4>2
    <3> QED
      BY <3>1, <3>2
  <2>7. \A s \in Script : \A k \in owner'[s] :
          stage'[k] = "open" /\ \E h \in HookIds' : hook'[h].fn = s /\ hook'[h].mod = k
    <3> SUFFICES ASSUME NEW s \in Script, NEW k \in owner'[s]
                 PROVE  stage[k] = "open" /\ \E h \in HookIds' : hook'[h].fn = s /\ hook'[h].mod = k
      BY <1>1
    <3>1. CASE s = f
      BY <1>1, <1>3, <1>4, <2>3, <3>1
    <3>2. CASE s # f
      <4>1. k \in owner[s]
        BY <2>3, <3>2
      <4>2. stage[k] = "open" /\ \E h \in HookIds : hook[h].fn = s /\ hook[h].mod = k
        BY <2>1, <4>1
      <4> QED
        BY <1>3, <4>2
    <3> QED
      BY <3>1, <3>2
  <2>8. \A h, k \in HookIds' : hook'[h].fn = hook'[k].fn /\ hook'[h].fn \in Script => hook'[h].mod = hook'[k].mod
    <3> SUFFICES ASSUME NEW h \in HookIds', NEW k \in HookIds', hook'[h].fn = hook'[k].fn, hook'[h].fn \in Script
                 PROVE  hook'[h].mod = hook'[k].mod
      OBVIOUS
    <3>1. \A j \in HookIds' : hook'[j].fn = f => hook'[j].mod = m
      BY <1>1, <1>3, <1>4
    <3>2. CASE hook'[h].fn = f
      BY <3>1, <3>2
    <3>3. CASE hook'[h].fn # f
      <4>1. h \in HookIds /\ k \in HookIds /\ hook'[h] = hook[h] /\ hook'[k] = hook[k]
        BY <1>3, <1>4, <3>3
      <4> QED
        BY <4>1 DEF Inv, Grouped
    <3> QED
      BY <3>2, <3>3
  <2>9. \A h \in HookIds' : hook'[h].fn \in Script /\ stage'[hook'[h].mod] = "open" => h \in groups'[hook'[h].fn]
    <3> SUFFICES ASSUME NEW h \in HookIds', hook'[h].fn \in Script, stage[hook'[h].mod] = "open"
                 PROVE  h \in groups'[hook'[h].fn]
      BY <1>1
    <3>1. CASE h = n
      BY <1>4, <2>3, <3>1
    <3>2. CASE h # n
      <4>1. h \in HookIds /\ hook'[h] = hook[h]
        BY <1>3, <3>2
      <4>2. h \in groups[hook[h].fn]
        BY <4>1 DEF Inv, Grouped
      <4> QED
        BY <2>3, <4>1, <4>2
    <3> QED
      BY <3>1, <3>2
  <2> QED
    BY <2>4, <2>5, <2>6, <2>7, <2>8, <2>9 DEF Grouped
<1>9. Stacked'
  <2>1. FALSE \in BOOLEAN /\ listed' \subseteq listed \cup {Len(hook) + 1} /\ listed \subseteq listed'
    BY <1>1
  <2> QED
    BY <1>1, <1>2, <2>1, RegisterKeepsCalls
<1> QED
  BY <1>5, <1>6, <1>7, <1>8, <1>9 DEF Inv

LEMMA UnregisterKeeps ==
  ASSUME Inv, NEW m \in Mods, NEW h \in HookIds, Unregister(m, h)
  PROVE  Inv'
<1>1. CASE UnregisterNative(m, h)
  <2>1. /\ h \in listed /\ scheduled' = scheduled \cup {h} /\ HookIds' = HookIds
        /\ UNCHANGED <<hook, listed, hooked, groups, owner, dropped, released, stage, calls>>
    BY <1>1 DEF UnregisterNative, HookIds
  <2>2. Registered' /\ Removals' /\ Staged' /\ Grouped'
    BY <2>1 DEF Inv, Registered, Removals, ReleasedOnce, IsErased, Staged, Grouped
  <2>3. \A i \in 1 .. Len(calls) : Sound(calls[i], hook', scheduled', listed', stage')
    BY <2>1 DEF Inv, Stacked, Sound
  <2>4. InScriptHook => ~Uninstalling'
    BY <2>1 DEF Inv, Stacked, Uninstalling
  <2>5. Stacked'
    BY <2>1, <2>3, <2>4, CallsStay DEF Inv
  <2> QED
    BY <2>2, <2>5 DEF Inv
<1>2. CASE hook[h].fn \notin Native /\ UnregisterScript(m, h)
  <2>1. /\ dropped' = dropped \cup {h} /\ HookIds' = HookIds
        /\ UNCHANGED <<hook, listed, hooked, scheduled, groups, owner, released, stage, calls>>
    BY <1>2 DEF UnregisterScript, HookIds
  <2>2. hook[h].fn \in Script
    <3>1. hook[h] \in Hooks
      BY ElementOfSeq DEF Inv, Registered, HookIds
    <3> QED
      BY <1>2, <3>1 DEF Hooks, Functions
  <2>3. Registered' /\ Removals' /\ Staged' /\ Grouped'
    BY <2>1, <2>2 DEF Inv, Registered, Removals, ReleasedOnce, IsErased, Staged, Grouped
  <2>4. \A i \in 1 .. Len(calls) : Sound(calls[i], hook', scheduled', listed', stage')
    BY <2>1 DEF Inv, Stacked
  <2>5. InScriptHook => ~Uninstalling'
    BY <2>1 DEF Inv, Stacked, Uninstalling
  <2>6. Stacked'
    BY <2>1, <2>4, <2>5, CallsStay DEF Inv
  <2> QED
    BY <2>3, <2>6 DEF Inv
<1> QED
  BY <1>1, <1>2 DEF Unregister
-----------------------------------------------------------------------------
(* LuaMod::uninstall.                                                      *)

LEMMA UninstallBeginsKeeps ==
  ASSUME Bounds, Inv, NEW m \in Mods, UninstallBegins(m)
  PROVE  Inv'
<1>1. /\ ~InScriptHook /\ ~Uninstalling /\ stage[m] = "open" /\ ~RunsNative(m)
      /\ stage' = [stage EXCEPT ![m] = "unhook"] /\ HookIds' = HookIds
      /\ groups' = [f \in Script |-> IF m \in owner[f] THEN {} ELSE groups[f]]
      /\ owner' = [f \in Script |-> owner[f] \ {m}]
      /\ scheduled' = scheduled \cup (HooksOf(m) \cap listed)
      /\ UNCHANGED <<hook, listed, hooked, dropped, released, calls>>
  BY DEF UninstallBegins, LockFree, Bounds, ErasesGroups, HookIds
<1>2. /\ stage \in [Mods -> Stages] /\ stage' \in [Mods -> Stages] /\ stage'[m] = "unhook"
      /\ \A k \in Mods : k # m => stage'[k] = stage[k] /\ stage[k] \notin Busy
  BY <1>1 DEF Inv, Staged, Stages, Uninstalling, Busy
<1>3. \A h \in HookIds : hook[h].mod \in Mods /\ hook[h].fn \in Functions
  <2>1. \A h \in HookIds : hook[h] \in Hooks
    BY ElementOfSeq DEF Inv, Registered, HookIds
  <2> QED
    BY <2>1 DEF Hooks
<1>4. Registered'
  BY <1>1 DEF Inv, Registered
<1>5. Removals'
  <2>1. \A h \in HookIds : stage'[hook[h].mod] \in {"close", "erase"} <=> stage[hook[h].mod] \in {"close", "erase"}
    BY <1>1, <1>2, <1>3
  <2>2. \A h \in HookIds : IsErased(h)' <=> IsErased(h)
    BY <1>1, <1>2, <1>3 DEF IsErased
  <2>3. ReleasedOnce'
    BY <1>1, <2>2 DEF Inv, Removals, ReleasedOnce
  <2> QED
    BY <1>1, <2>1, <2>3, Identifiers DEF Inv, Removals
<1>6. Staged'
  <2>1. listed \subseteq HookIds /\ hooked \subseteq HookIds
    BY Identifiers
  <2>2. \A h \in listed : stage'[hook[h].mod] = "open" \/ h \in scheduled'
    BY <1>1, <1>2, <1>3, <2>1 DEF Inv, Staged, HooksOf
  <2>3. \A h \in listed : stage'[hook[h].mod] # "closed"
    BY <1>2, <1>3, <2>1 DEF Inv, Staged
  <2>4. \A h \in hooked : stage'[hook[h].mod] \in {"open", "unhook"}
    BY <1>1, <1>2, <1>3, <2>1 DEF Inv, Staged
  <2>5. \A h \in HookIds : hook[h].fn \in Native /\ stage'[hook[h].mod] = "open" => h \in listed \cup scheduled'
    BY <1>1, <1>2, <1>3 DEF Inv, Staged
  <2>6. \A j, k \in Mods : {stage'[j], stage'[k]} \subseteq Busy => j = k
    BY <1>2
  <2> QED
    BY <1>1, <1>2, <2>2, <2>3, <2>4, <2>5, <2>6 DEF Staged
<1>7. Grouped'
  <2>1. /\ groups \in [Script -> SUBSET HookIds] /\ owner \in [Script -> SUBSET Mods]
        /\ \A f \in Script : \A h \in groups[f] : hook[h].fn = f /\ hook[h].mod \in owner[f]
        /\ \A f \in Script : \A k \in owner[f] :
             stage[k] = "open" /\ \E h \in HookIds : hook[h].fn = f /\ hook[h].mod = k
    BY DEF Inv, Grouped
  <2>2. groups' \in [Script -> SUBSET HookIds'] /\ owner' \in [Script -> SUBSET Mods]
    BY <1>1, <2>1
  <2>3. \A f \in Script : \A h \in groups'[f] : hook'[h].fn = f /\ hook'[h].mod \in owner'[f]
    BY <1>1, <2>1
  <2>4. \A f \in Script : \A k \in owner'[f] :
          stage'[k] = "open" /\ \E h \in HookIds' : hook'[h].fn = f /\ hook'[h].mod = k
    BY <1>1, <1>2, <2>1
  <2>5. \A h, k \in HookIds' : hook'[h].fn = hook'[k].fn /\ hook'[h].fn \in Script => hook'[h].mod = hook'[k].mod
    BY <1>1 DEF Inv, Grouped
  <2>6. \A h \in HookIds' : hook'[h].fn \in Script /\ stage'[hook'[h].mod] = "open" => h \in groups'[hook'[h].fn]
    <3> SUFFICES ASSUME NEW h \in HookIds, hook[h].fn \in Script, stage'[hook[h].mod] = "open"
                 PROVE  h \in groups'[hook[h].fn]
      BY <1>1
    <3>1. hook[h].mod # m /\ stage[hook[h].mod] = "open"
      BY <1>2, <1>3
    <3>2. h \in groups[hook[h].fn]
      BY <3>1 DEF Inv, Grouped
    <3>3. m \notin owner[hook[h].fn]
      <4>1. SUFFICES ASSUME m \in owner[hook[h].fn] PROVE FALSE
        OBVIOUS
      <4>2. PICK k \in HookIds : hook[k].fn = hook[h].fn /\ hook[k].mod = m
        BY <2>1, <4>1
      <4> QED
        BY <3>1, <4>2 DEF Inv, Grouped
    <3> QED
      BY <1>1, <3>2, <3>3
  <2> QED
    BY <2>2, <2>3, <2>4, <2>5, <2>6 DEF Grouped
<1>8. Stacked'
  <2>1. \A i \in 1 .. Len(calls) : Sound(calls[i], hook', scheduled', listed', stage')
    <3> SUFFICES ASSUME NEW i \in 1 .. Len(calls) PROVE Sound(calls[i], hook, scheduled', listed, stage')
      BY <1>1
    <3>1. Sound(calls[i], hook, scheduled, listed, stage) /\ calls[i].phase # "script"
      BY <1>1 DEF Inv, Stacked, InScriptHook
    <3>2. scheduled \subseteq 1 .. Len(hook) /\ scheduled \subseteq scheduled'
      BY <1>1, Identifiers DEF HookIds
    <3>3. calls[i].at # "idle" => stage'[hook[calls[i].running].mod] = stage[hook[calls[i].running].mod]
      <4> SUFFICES ASSUME calls[i].at # "idle"
                   PROVE  stage'[hook[calls[i].running].mod] = stage[hook[calls[i].running].mod]
        OBVIOUS
      <4>1. calls[i].running \in HookIds
        BY <3>1 DEF Sound, HookIds
      <4>2. hook[calls[i].running].mod # m
        BY <1>1, <3>1, <4>1 DEF RunsNative, HooksOf
      <4> QED
        BY <1>2, <1>3, <4>1, <4>2
    <3>4. \A h \in 1 .. Len(hook) : stage'[hook[h].mod] = "open" => stage[hook[h].mod] = "open"
      BY <1>2, <1>3 DEF HookIds
    <3>5. /\ calls[i].at \in InLua => stage'[hook[calls[i].running].mod] = "open"
          /\ calls[i].at # "idle" => stage'[hook[calls[i].running].mod] \in {"open", "unhook", "close"}
          /\ UsesData(calls[i]) => calls[i].running \in listed
      BY <3>1, <3>3 DEF Sound, InLua
    <3>6. listed \subseteq listed /\ listed \subseteq 1 .. Len(hook)
      BY Identifiers DEF HookIds
    <3> QED
      BY <3>1, <3>2, <3>4, <3>5, <3>6, SoundThrough
  <2> QED
    BY <1>1, <2>1, CallsStay DEF Inv
<1> QED
  BY <1>4, <1>5, <1>6, <1>7, <1>8 DEF Inv

LEMMA UninstallUnhooksKeeps ==
  ASSUME Inv, NEW m \in Mods, UninstallUnhooks(m)
  PROVE  Inv'
<1>1. /\ stage[m] = "unhook" /\ stage' = [stage EXCEPT ![m] = "close"] /\ HookIds' = HookIds
      /\ hooked' = hooked \ (HooksOf(m) \cap listed)
      /\ UNCHANGED <<hook, listed, scheduled, groups, owner, dropped, released, calls>>
  BY DEF UninstallUnhooks, HookIds
<1>2. /\ stage \in [Mods -> Stages] /\ stage' \in [Mods -> Stages] /\ stage'[m] = "close"
      /\ \A k \in Mods : k # m => stage'[k] = stage[k] /\ stage[k] \notin Busy
  BY <1>1 DEF Inv, Staged, Stages, Busy
<1>3. \A h \in HookIds : hook[h].mod \in Mods
  <2>1. \A h \in HookIds : hook[h] \in Hooks
    BY ElementOfSeq DEF Inv, Registered, HookIds
  <2> QED
    BY <2>1 DEF Hooks
<1>4. \A k \in Mods : stage'[k] = "open" <=> stage[k] = "open"
  BY <1>1, <1>2
<1>5. Registered'
  BY <1>1 DEF Inv, Registered
<1>6. Removals'
  <2>1. listed \subseteq HookIds /\ hooked \subseteq listed
    BY Identifiers DEF Inv, Registered
  <2>2. \A h \in HookIds : IsErased(h)' <=> IsErased(h)
    BY <1>1, <1>2, <1>3 DEF IsErased
  <2>3. ReleasedOnce'
    BY <1>1, <2>2 DEF Inv, Removals, ReleasedOnce
  <2>4. \A h \in listed : h \in hooked' \/ stage'[hook[h].mod] \in {"close", "erase"} \/ \E p \in Ends : At(calls, h, p)
    BY <1>1, <1>2, <1>3, <2>1 DEF Inv, Removals, HooksOf
  <2> QED
    BY <1>1, <2>3, <2>4 DEF Inv, Removals
<1>7. Staged'
  <2>1. listed \subseteq HookIds /\ hooked \subseteq listed
    BY Identifiers DEF Inv, Registered
  <2>2. \A h \in listed : stage'[hook[h].mod] # "closed"
    BY <1>2, <1>3, <2>1 DEF Inv, Staged
  <2>3. \A h \in listed : h \in scheduled' \/ stage'[hook[h].mod] = "open"
    BY <1>1, <1>2, <1>3, <1>4, <2>1 DEF Inv, Staged
  <2>4. \A h \in hooked' : stage'[hook[h].mod] \in {"open", "unhook"}
    BY <1>1, <1>2, <1>3, <2>1 DEF Inv, Staged, HooksOf
  <2>5. \A h \in HookIds : hook[h].fn \in Native /\ stage'[hook[h].mod] = "open" => h \in listed \cup scheduled'
    BY <1>1, <1>3, <1>4 DEF Inv, Staged
  <2>6. \A j, k \in Mods : {stage'[j], stage'[k]} \subseteq Busy => j = k
    BY <1>2
  <2> QED
    BY <1>1, <1>2, <2>2, <2>3, <2>4, <2>5, <2>6 DEF Staged
<1>8. Grouped'
  BY <1>1, <1>3, <1>4 DEF Inv, Grouped
<1>9. Stacked'
  <2>1. Uninstalling /\ ~InScriptHook
    BY <1>1 DEF Uninstalling, Busy, Inv, Stacked
  <2>2. \A i \in 1 .. Len(calls) : Sound(calls[i], hook', scheduled', listed', stage')
    <3> SUFFICES ASSUME NEW i \in 1 .. Len(calls) PROVE Sound(calls[i], hook, scheduled, listed, stage')
      BY <1>1
    <3>1. Sound(calls[i], hook, scheduled, listed, stage) /\ calls[i].phase # "script"
      BY <2>1 DEF Inv, Stacked, InScriptHook
    <3>2. \A h \in HookIds : stage'[hook[h].mod] = "open" <=> stage[hook[h].mod] = "open"
      BY <1>3, <1>4
    <3>3. calls[i].at # "idle" => calls[i].running \in HookIds
      BY <3>1 DEF Sound, HookIds
    <3>4. scheduled \subseteq 1 .. Len(hook)
      BY Identifiers DEF HookIds
    <3>5. \A h \in HookIds : stage[hook[h].mod] \in {"open", "unhook", "close"}
                             => stage'[hook[h].mod] \in {"open", "unhook", "close"}
      BY <1>2, <1>3
    <3>6. /\ calls[i].at \in InLua => stage'[hook[calls[i].running].mod] = "open"
          /\ calls[i].at # "idle" => stage'[hook[calls[i].running].mod] \in {"open", "unhook", "close"}
          /\ UsesData(calls[i]) => calls[i].running \in listed
      BY <3>1, <3>2, <3>3, <3>5 DEF Sound, InLua
    <3>7. \A h \in 1 .. Len(hook) : stage'[hook[h].mod] = "open" => stage[hook[h].mod] = "open"
      BY <3>2 DEF HookIds
    <3> QED
      BY <3>1, <3>4, <3>6, <3>7, SoundStays
  <2> QED
    BY <1>1, <2>1, <2>2, CallsStay DEF Inv
<1> QED
  BY <1>5, <1>6, <1>7, <1>8, <1>9 DEF Inv

\* The hook functions under way are of mods whose Lua state is open and stays so.
LEMMA NoneOf ==
  ASSUME Inv, NEW m \in Mods, stage[m] \in {"close", "erase"},
         stage[m] = "close" => ~RunsNativeOutsideLua(m)
  PROVE  /\ ~InScriptHook
         /\ \A i \in 1 .. Len(calls) : calls[i].at # "idle" => hook[calls[i].running].mod # m
<1>1. ~InScriptHook
  BY DEF Uninstalling, Busy, Inv, Stacked
<1>2. ASSUME NEW i \in 1 .. Len(calls), calls[i].at # "idle", hook[calls[i].running].mod = m PROVE FALSE
  <2>1. Sound(calls[i], hook, scheduled, listed, stage) /\ calls[i].phase # "script"
    BY <1>1 DEF Inv, Stacked, InScriptHook
  <2>2. stage[m] = "close"
    BY <1>2, <2>1 DEF Sound
  <2>3. calls[i].running \in HooksOf(m)
    BY <1>2, <2>1 DEF Sound, HooksOf, HookIds
  <2>4. calls[i].at = "lua"
    BY <2>1, <2>2, <2>3 DEF RunsNativeOutsideLua
  <2> QED
    BY <1>2, <2>1, <2>2, <2>4 DEF Sound, InLua
<1> QED
  BY <1>1, <1>2

\* A stage that an uninstall leaves behind it, with no hook function of the mod under way.
LEMMA CallsOutlast ==
  ASSUME Inv, NEW m \in Mods, stage[m] \in {"close", "erase"},
         stage[m] = "close" => ~RunsNativeOutsideLua(m), NEW st, stage' = [stage EXCEPT ![m] = st], st # "open",
         HookIds' = HookIds, UNCHANGED <<hook, scheduled, calls>>,
         listed' \subseteq listed, \A h \in listed : hook[h].mod # m => h \in listed'
  PROVE  Stacked'
<1>1. ~InScriptHook /\ \A i \in 1 .. Len(calls) : calls[i].at # "idle" => hook[calls[i].running].mod # m
  BY NoneOf
<1>2. \A k \in Mods : stage'[k] = IF k = m THEN st ELSE stage[k]
  BY DEF Inv, Staged
<1>3. \A h \in HookIds : hook[h].mod \in Mods
  <2>1. \A h \in HookIds : hook[h] \in Hooks
    BY ElementOfSeq DEF Inv, Registered, HookIds
  <2> QED
    BY <2>1 DEF Hooks
<1>4. \A i \in 1 .. Len(calls) : Sound(calls[i], hook', scheduled', listed', stage')
  <2> SUFFICES ASSUME NEW i \in 1 .. Len(calls) PROVE Sound(calls[i], hook, scheduled, listed', stage')
    OBVIOUS
  <2>1. Sound(calls[i], hook, scheduled, listed, stage) /\ calls[i].phase # "script"
    BY <1>1 DEF Inv, Stacked, InScriptHook
  <2>2. scheduled \subseteq scheduled /\ listed \subseteq 1 .. Len(hook)
    BY Identifiers DEF HookIds
  <2>3. calls[i].at # "idle" => stage'[hook[calls[i].running].mod] = stage[hook[calls[i].running].mod]
    <3>1. calls[i].at # "idle" => calls[i].running \in HookIds
      BY <2>1 DEF Sound, HookIds
    <3> QED
      BY <1>1, <1>2, <1>3, <3>1
  <2>4. /\ calls[i].at \in InLua => stage'[hook[calls[i].running].mod] = "open"
        /\ calls[i].at # "idle" => stage'[hook[calls[i].running].mod] \in {"open", "unhook", "close"}
        /\ UsesData(calls[i]) => calls[i].running \in listed'
    BY <1>1, <2>1, <2>3 DEF Sound, InLua, UsesData
  <2>5. \A h \in 1 .. Len(hook) : stage'[hook[h].mod] = "open" => stage[hook[h].mod] = "open"
    BY <1>2, <1>3 DEF HookIds
  <2>6. listed' \subseteq listed
    OBVIOUS
  <2> QED
    BY ONLY <2>1, <2>2, <2>4, <2>5, <2>6, SoundThrough
<1> QED
  BY <1>1, <1>4, CallsStay DEF Inv

LEMMA UninstallClosesKeeps ==
  ASSUME Bounds, Inv, NEW m \in Mods, UninstallCloses(m)
  PROVE  Inv'
<1>1. /\ stage[m] = "close" /\ ~RunsNativeOutsideLua(m)
      /\ stage' = [stage EXCEPT ![m] = "erase"] /\ HookIds' = HookIds
      /\ released' = [h \in HookIds |-> IF h \in HooksOf(m) \cap listed /\ released[h] = 0 THEN 1 ELSE released[h]]
      /\ UNCHANGED <<hook, listed, hooked, scheduled, groups, owner, dropped, calls>>
  BY DEF UninstallCloses, HookIds, Bounds
<1>2. /\ stage \in [Mods -> Stages] /\ stage' \in [Mods -> Stages] /\ stage'[m] = "erase"
      /\ \A k \in Mods : k # m => stage'[k] = stage[k] /\ stage[k] \notin Busy
  BY <1>1 DEF Inv, Staged, Stages, Busy
<1>3. \A h \in HookIds : hook[h].mod \in Mods
  <2>1. \A h \in HookIds : hook[h] \in Hooks
    BY ElementOfSeq DEF Inv, Registered, HookIds
  <2> QED
    BY <2>1 DEF Hooks
<1>4. \A k \in Mods : stage'[k] = "open" <=> stage[k] = "open"
  BY <1>1, <1>2
<1>5. listed \subseteq HookIds /\ hooked \subseteq listed
  BY Identifiers DEF Inv, Registered
<1>6. Registered'
  <2>1. released \in Seq(Nat) /\ Len(released) = Len(hook) /\ Len(hook) \in Nat
    BY Identifiers DEF Inv, Registered
  <2>2. \A h \in HookIds : released[h] \in Nat
    BY <2>1, ElementOfSeq DEF HookIds
  <2>3. released' \in [1 .. Len(hook) -> Nat]
    BY <1>1, <2>2 DEF HookIds
  <2>4. released' \in Seq(Nat) /\ Len(released') = Len(hook)
    BY <2>1, <2>3, SeqDef
  <2> QED
    BY <1>1, <2>4 DEF Inv, Registered
<1>7. Staged'
  <2>1. \A h \in listed : stage'[hook[h].mod] # "closed"
    BY <1>2, <1>3, <1>5 DEF Inv, Staged
  <2>2. \A h \in listed : h \in scheduled \/ stage'[hook[h].mod] = "open"
    BY <1>3, <1>4, <1>5 DEF Inv, Staged
  <2>3. \A h \in hooked : stage'[hook[h].mod] \in {"open", "unhook"}
    BY <1>1, <1>2, <1>3, <1>5 DEF Inv, Staged
  <2>4. \A h \in HookIds : hook[h].fn \in Native /\ stage'[hook[h].mod] = "open" => h \in listed \cup scheduled
    BY <1>3, <1>4 DEF Inv, Staged
  <2>5. \A j, k \in Mods : {stage'[j], stage'[k]} \subseteq Busy => j = k
    BY <1>2
  <2> QED
    BY <1>1, <1>2, <2>1, <2>2, <2>3, <2>4, <2>5 DEF Staged
<1>8. \A h : \A p \in Ends : h \in HooksOf(m) => ~At(calls, h, p)
  <2>1. \A i \in 1 .. Len(calls) : calls[i].at # "idle" => hook[calls[i].running].mod # m
    BY <1>1, NoneOf
  <2> QED
    BY <2>1 DEF At, HooksOf, Ends
<1>9. Removals'
  <2>1. \A h \in HookIds \ HooksOf(m) : (IsErased(h)' <=> IsErased(h)) /\ released'[h] = released[h]
    BY <1>1, <1>2, <1>3 DEF IsErased, HooksOf
  <2>2. \A h \in HooksOf(m) : h \in HookIds /\ IsErased(h)' /\ ~IsErased(h)
    BY <1>1, <1>2, <1>8 DEF IsErased, HooksOf, At, Ends
  <2>3. \A h \in HookIds : hook[h].fn \in Native => released'[h] = IF h \in listed /\ ~IsErased(h)' THEN 0 ELSE 1
    <3> SUFFICES ASSUME NEW h \in HookIds, hook[h].fn \in Native
                 PROVE  released'[h] = IF h \in listed /\ ~IsErased(h)' THEN 0 ELSE 1
      OBVIOUS
    <3>1. released[h] = IF h \in listed /\ ~IsErased(h) THEN 0 ELSE 1
      BY DEF Inv, Removals, ReleasedOnce
    <3>2. CASE h \in HooksOf(m)
      BY <1>1, <2>2, <3>1, <3>2
    <3>3. CASE h \notin HooksOf(m)
      BY <2>1, <3>1, <3>3
    <3> QED
      BY <3>2, <3>3
  <2>4. ReleasedOnce'
    BY <1>1, <2>3 DEF ReleasedOnce
  <2>5. \A h \in listed : stage[hook[h].mod] \in {"close", "erase"} => stage'[hook[h].mod] \in {"close", "erase"}
    BY <1>2, <1>3, <1>5
  <2> QED
    BY <1>1, <2>4, <2>5 DEF Inv, Removals
<1>10. Grouped'
  BY <1>1, <1>3, <1>4 DEF Inv, Grouped
<1>11. Stacked'
  BY <1>1, CallsOutlast
<1> QED
  BY <1>6, <1>7, <1>9, <1>10, <1>11 DEF Inv

LEMMA UninstallErasesKeeps ==
  ASSUME Inv, NEW m \in Mods, UninstallErases(m)
  PROVE  Inv'
<1>1. /\ stage[m] = "erase" /\ stage' = [stage EXCEPT ![m] = "closed"] /\ HookIds' = HookIds
      /\ listed' = listed \ HooksOf(m)
      /\ UNCHANGED <<hook, hooked, scheduled, groups, owner, dropped, released, calls>>
  BY DEF UninstallErases, HookIds
<1>2. /\ stage \in [Mods -> Stages] /\ stage' \in [Mods -> Stages] /\ stage'[m] = "closed"
      /\ \A k \in Mods : k # m => stage'[k] = stage[k] /\ stage[k] \notin Busy
  BY <1>1 DEF Inv, Staged, Stages, Busy
<1>3. \A h \in HookIds : hook[h].mod \in Mods
  <2>1. \A h \in HookIds : hook[h] \in Hooks
    BY ElementOfSeq DEF Inv, Registered, HookIds
  <2> QED
    BY <2>1 DEF Hooks
<1>4. \A k \in Mods : stage'[k] = "open" <=> stage[k] = "open"
  BY <1>1, <1>2
<1>5. listed \subseteq HookIds /\ hooked \subseteq listed
  BY Identifiers DEF Inv, Registered
<1>6. \A h \in hooked : hook[h].mod # m
  BY <1>1 DEF Inv, Staged
<1>7. /\ \A h \in listed' : hook[h].mod # m /\ h \in listed
      /\ \A h \in listed : hook[h].mod # m => h \in listed'
  BY <1>1, <1>5 DEF HooksOf
<1>8. Registered'
  BY <1>1, <1>5, <1>6, <1>7 DEF Inv, Registered
<1>9. Staged'
  <2>1. \A h \in listed' : stage'[hook[h].mod] = stage[hook[h].mod]
    BY <1>2, <1>3, <1>5, <1>7
  <2>2. \A h \in listed' : stage'[hook[h].mod] # "closed" /\ (h \in scheduled \/ stage'[hook[h].mod] = "open")
    BY <1>7, <2>1 DEF Inv, Staged
  <2>3. \A h \in hooked : stage'[hook[h].mod] \in {"open", "unhook"}
    BY <1>2, <1>3, <1>5, <1>6 DEF Inv, Staged
  <2>4. \A h \in HookIds : hook[h].fn \in Native /\ stage'[hook[h].mod] = "open" => h \in listed' \cup scheduled
    BY <1>1, <1>2, <1>3, <1>4 DEF Inv, Staged, HooksOf
  <2>5. \A j, k \in Mods : {stage'[j], stage'[k]} \subseteq Busy => j = k
    BY <1>2 DEF Busy
  <2> QED
    BY <1>1, <1>2, <2>2, <2>3, <2>4, <2>5 DEF Staged
<1>10. Removals'
  <2>1. \A h \in HookIds \ HooksOf(m) : (IsErased(h)' <=> IsErased(h)) /\ (h \in listed' <=> h \in listed)
    BY <1>1, <1>2, <1>3 DEF IsErased, HooksOf
  <2>2. \A h \in HooksOf(m) : h \in HookIds /\ IsErased(h) /\ h \notin listed'
    BY <1>1 DEF IsErased, HooksOf
  <2>3. \A h \in HookIds : hook[h].fn \in Native => released[h] = IF h \in listed' /\ ~IsErased(h)' THEN 0 ELSE 1
    BY <2>1, <2>2 DEF Inv, Removals, ReleasedOnce
  <2>4. ReleasedOnce'
    BY <1>1, <2>3 DEF ReleasedOnce
  <2>5. \A h \in listed' : h \in listed /\ stage'[hook[h].mod] = stage[hook[h].mod]
    BY <1>2, <1>3, <1>5, <1>7
  <2> QED
    BY <1>1, <2>4, <2>5 DEF Inv, Removals
<1>11. Grouped'
  BY <1>1, <1>3, <1>4 DEF Inv, Grouped
<1>12. Stacked'
  <2>1. listed' \subseteq listed
    BY <1>1
  <2> QED
    BY <1>1, <1>7, <2>1, CallsOutlast
<1> QED
  BY <1>8, <1>9, <1>10, <1>11, <1>12 DEF Inv
-----------------------------------------------------------------------------
(* The invariant.                                                          *)

LEMMA InitInv ==
  ASSUME Init
  PROVE  Inv
<1>1. hook = <<>> /\ released = <<>> /\ calls = <<>> /\ HookIds = {}
  BY EmptySeq DEF Init, HookIds
<1>2. hook \in Seq(Hooks) /\ released \in Seq(Nat) /\ calls \in Seq(Frames) /\ Len(calls) = 0
  BY <1>1, EmptySeq
<1>3. Registered
  BY <1>1, <1>2 DEF Init, Registered
<1>4. Removals
  BY <1>1 DEF Init, Removals, ReleasedOnce
<1>5. Staged
  BY <1>1 DEF Init, Staged, Stages, Busy
<1>6. Grouped
  BY <1>1 DEF Init, Grouped
<1>7. Stacked
  BY <1>2 DEF Stacked, InScriptHook
<1> QED
  BY <1>3, <1>4, <1>5, <1>6, <1>7 DEF Inv

LEMMA StutterKeeps ==
  ASSUME Inv, UNCHANGED vars
  PROVE  Inv'
<1>1. UNCHANGED <<registry, stage>> /\ UNCHANGED calls
  BY DEF vars
<1>2. (Registered /\ Staged /\ Grouped)' /\ Removals'
  BY <1>1, RegistryStays, RemovalsStay DEF Inv
<1>3. \A i \in 1 .. Len(calls) : Sound(calls[i], hook', scheduled', listed', stage')
  BY <1>1 DEF Inv, Stacked, registry
<1>4. InScriptHook => ~Uninstalling'
  BY <1>1 DEF Inv, Stacked, Uninstalling
<1> QED
  BY <1>1, <1>2, <1>3, <1>4, CallsStay DEF Inv

LEMMA NextKeeps ==
  ASSUME Bounds, Inv, [Next]_vars
  PROVE  Inv'
<1>1. CASE UNCHANGED vars
  BY <1>1, StutterKeeps
<1>2. CASE GameThread
  <2>1. ASSUME NEW f \in Native, CallNative(f) PROVE Inv'
    BY <2>1, CallNativeKeeps
  <2>2. ASSUME NEW f \in Script, CallScript(f) PROVE Inv'
    BY <2>2, CallScriptKeeps
  <2>3. ASSUME NEW h \in HookIds, FireNative(h) \/ FireScript(h) PROVE Inv'
    BY <2>3, FireNativeKeeps, FireScriptKeeps
  <2>4. CASE PreChecks \/ Enters \/ PreReturns \/ PreEnds
    BY <2>4, PreChecksKeeps, EntersKeeps, PreReturnsKeeps, PreEndsKeeps
  <2>5. CASE PostChecks \/ PostReturns \/ PostChecksAgain
    BY <2>5, PostChecksKeeps, PostReturnsKeeps, PostChecksAgainKeeps
  <2>6. CASE PostUnhooks \/ PostReleases \/ PostErases
    BY <2>6, PostUnhooksKeeps, PostReleasesKeeps, PostErasesKeeps
  <2>7. CASE PostEnds \/ ScriptReturns \/ ScriptEnds
    BY <2>7, ReturnKeeps, ScriptReturnsKeeps
  <2> QED
    BY <1>2, <2>1, <2>2, <2>3, <2>4, <2>5, <2>6, <2>7 DEF GameThread
<1>3. ASSUME NEW m \in Mods, ModCode(m) PROVE Inv'
  <2>1. ASSUME NEW f \in Native, NEW post \in BOOLEAN, RegisterNative(m, f, post) PROVE Inv'
    BY <2>1, RegisterNativeKeeps
  <2>2. ASSUME NEW f \in Script, RegisterScript(m, f) PROVE Inv'
    BY <2>2, RegisterScriptKeeps
  <2>3. ASSUME NEW h \in HookIds, Unregister(m, h) PROVE Inv'
    BY <2>3, UnregisterKeeps
  <2> QED
    BY <1>3, <2>1, <2>2, <2>3 DEF ModCode
<1>4. ASSUME NEW m \in Mods, Uninstall(m) PROVE Inv'
  BY <1>4, UninstallBeginsKeeps, UninstallUnhooksKeeps, UninstallClosesKeeps, UninstallErasesKeeps DEF Uninstall
<1> QED
  BY <1>1, <1>2, <1>3, <1>4 DEF Next

\* Registrations, stages and calls stay in the invariant (remove_if_scheduled, uninstall,
\* the hooks of native functions and script_hook).
THEOREM HooksInvariant ==
  ASSUME Bounds
  PROVE  Spec => []Inv
<1>1. Init => Inv
  BY InitInv
<1>2. Inv /\ [Next]_vars => Inv'
  BY NextKeeps
<1> QED
  BY <1>1, <1>2, PTL DEF Spec

\* Every variable has its type, the engine holds callbacks of existing data only, and one
\* mod at a time is being uninstalled.
THEOREM HooksTypeCorrect ==
  ASSUME Bounds
  PROVE  Spec => []TypeOK
<1>1. Inv => TypeOK
  <2> SUFFICES ASSUME Inv PROVE TypeOK
    OBVIOUS
  <2>1. calls \in Seq(Frames) /\ Len(calls) \in Nat
    BY LenProperties DEF Inv, Stacked
  <2>2. \A i \in 1 .. Len(calls) : calls[i] \in Calls
    <3> SUFFICES ASSUME NEW i \in 1 .. Len(calls) PROVE calls[i] \in Calls
      OBVIOUS
    <3>1. calls[i] \in Frames /\ Sound(calls[i], hook, scheduled, listed, stage)
      BY <2>1, ElementOfSeq DEF Inv, Stacked
    <3>2. calls[i].todo \subseteq HookIds /\ calls[i].marked \subseteq HookIds /\ calls[i].running \in HookIds \cup {NoHook}
      BY <3>1, Identifiers DEF Sound, HookIds
    <3>3. calls[i].fn \in Functions
      BY <3>1 DEF Frames
    <3> QED
      BY <3>1, <3>2, <3>3 DEF Frames, Calls
  <2>3. calls \in [1 .. Len(calls) -> Calls]
    BY <2>1, <2>2, LenProperties
  <2>4. calls \in Seq(Calls)
    BY <2>1, <2>3, SeqDef
  <2>5. hook \in Seq([mod : Mods, fn : Functions, post : BOOLEAN])
    BY DEF Inv, Registered, Hooks
  <2> QED
    BY <2>4, <2>5 DEF Inv, Registered, Staged, Grouped, TypeOK
<1> QED
  BY <1>1, HooksInvariant, PTL

\* A native hook's references are given back once, before its data goes: by the post hook
\* that finds the mark, in a step of its own between other threads' steps, or by lua_close.
THEOREM ReferencesReleasedOnce ==
  ASSUME Bounds
  PROVE  Spec => []ReleasedOnce
<1>1. Inv => ReleasedOnce
  BY DEF Inv, Removals
<1> QED
  BY <1>1, HooksInvariant, PTL

\* Whatever other mods register, unregister or lose by uninstall, an open mod's hook
\* that nobody unregistered is still fired.
THEOREM HooksAreKept ==
  ASSUME Bounds
  PROVE  Spec => []HooksStay
<1>1. Inv => HooksStay
  <2> SUFFICES ASSUME Inv, NEW h \in HookIds, stage[hook[h].mod] = "open", h \notin scheduled \cup dropped
               PROVE  IF hook[h].fn \in Native THEN h \in hooked ELSE h \in groups[hook[h].fn]
    BY DEF HooksStay
  <2>1. hook[h] \in Hooks
    BY ElementOfSeq DEF Inv, Registered, HookIds
  <2>2. hook[h].fn \in Native \cup Script
    BY <2>1 DEF Hooks, Functions
  <2>3. CASE hook[h].fn \in Native
    <3>1. h \in listed
      BY <2>3 DEF Inv, Staged
    <3>2. \A p \in Ends : ~At(calls, h, p)
      BY DEF At, Ends, Removing, Inv, Stacked, Sound
    <3> QED
      BY <2>3, <3>1, <3>2 DEF Inv, Removals
  <2>4. CASE hook[h].fn \notin Native
    BY <2>2, <2>4 DEF Inv, Grouped
  <2> QED
    BY <2>3, <2>4
<1> QED
  BY <1>1, HooksInvariant, PTL

\* No hook function enters or runs Lua, handles a result or gives references back, at any
\* depth of calls, on a Lua state that uninstall has closed.
THEOREM CallbacksHaveTheirState ==
  ASSUME Bounds
  PROVE  Spec => []CallbackStateOpen
<1>1. Inv => CallbackStateOpen
  BY DEF Inv, Stacked, Sound, CallbackStateOpen, UsesLua
<1> QED
  BY <1>1, HooksInvariant, PTL

\* The first call that begins after UnregisterHook removes the native hook before it ends.
THEOREM UnregisteredGoes ==
  ASSUME Bounds
  PROVE  Spec => []UnregisteredIsRemoved
<1>1. Inv => UnregisteredIsRemoved
  BY DEF Inv, Stacked, Sound, UnregisteredIsRemoved
<1> QED
  BY <1>1, HooksInvariant, PTL

\* No hook function uses data that the removal of its hook, by a call within its call or
\* by an uninstall on the other thread, has erased.
THEOREM HookDataStays ==
  ASSUME Bounds
  PROVE  Spec => []HookDataIsLive
<1>1. Inv => HookDataIsLive
  BY DEF Inv, Stacked, Sound, UsesData, HookDataIsLive
<1> QED
  BY <1>1, HooksInvariant, PTL
=============================================================================
