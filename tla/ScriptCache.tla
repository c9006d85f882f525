----------------------------- MODULE ScriptCache -----------------------------
(***************************************************************************)
(* The cache of compiled scripts: a dictionary and a list of recency that  *)
(* a lock keeps together, and the executor that looks a script up,         *)
(* compiles it when it is not there, adds and runs it.  Lookup and         *)
(* addition are two sections of the lock, so executors at once may compile *)
(* the same text twice.                                                    *)
(***************************************************************************)
EXTENDS Naturals, Sequences, FiniteSets, SequencesExt, Option

CONSTANTS
  Executor,
  Code,        \* script texts
  Broken,      \* texts that do not compile
  Capacity     \* ScriptCacheCapacity

ASSUME CacheAssumption == Capacity \in Nat \ {0} /\ Broken \subseteq Code /\ None \notin Code

\* A compiled script: its text and who compiled it.
Script == [text : Code, by : Executor]

VARIABLES
  entries,    \* the dictionary: texts to scripts
  recency,    \* the list, most recent first
  text,       \* what each executor executes, None between two
  script,     \* what it has, None while it compiles
  used        \* history: every text used since the cache was cleared, last use first

cacheVars == <<entries, recency, text, script, used>>

CacheInit ==
  /\ entries = <<>> /\ recency = <<>> /\ used = <<>>
  /\ text = [e \in Executor |-> None] /\ script = text

\* Where a text is in a list, the end if it is not there.
Place(s, c) == IF c \in ToSet(s) THEN CHOOSE i \in DOMAIN s : s[i] = c ELSE Len(s) + 1

\* Its node is moved to the front, or added there: those before it move back.
Touch(s, c) ==
  LET i == Place(s, c)
  IN [k \in 1..(IF i > Len(s) THEN i ELSE Len(s)) |-> IF k = 1 THEN c ELSE IF k <= i THEN s[k - 1] ELSE s[k]]

\* Faulty variant of TryGet: a hit does not count as a use of the list.
TryGetUntouched(e, c) ==
  /\ text[e] = None /\ c \in DOMAIN entries
  /\ text' = [text EXCEPT ![e] = c]
  /\ script' = [script EXCEPT ![e] = entries[c]]
  /\ used' = Touch(used, c)
  /\ UNCHANGED <<entries, recency>>

\* TryGet finds the text and moves it to the front.
TryGet(e, c) ==
  /\ text[e] = None /\ c \in DOMAIN entries
  /\ text' = [text EXCEPT ![e] = c]
  /\ script' = [script EXCEPT ![e] = entries[c]]
  /\ recency' = Touch(recency, c) /\ used' = Touch(used, c)
  /\ UNCHANGED entries

Miss(e, c) ==
  /\ text[e] = None /\ c \notin DOMAIN entries
  /\ text' = [text EXCEPT ![e] = c]
  /\ UNCHANGED <<entries, recency, script, used>>

\* The while loop of Add: the oldest go until the capacity is kept.
Newest(list) == SubSeq(list, 1, IF Len(list) < Capacity THEN Len(list) ELSE Capacity)

Remember(c, s, keys) == [d \in keys |-> IF d = c THEN s ELSE entries[d]]

\* HasErrors.
Fails(c) == c \in Broken

\* Compile, and Add when that succeeded.
Compile(e) ==
  /\ text[e] # None /\ script[e] = None
  /\ LET c == text[e]
         s == [text |-> c, by |-> e]
     IN /\ script' = [script EXCEPT ![e] = s]
        /\ IF Fails(c) THEN UNCHANGED <<entries, recency, used>>
           ELSE /\ recency' = Newest(Touch(recency, c))
                /\ entries' = Remember(c, s, ToSet(recency'))
                /\ used' = Touch(used, c)
  /\ UNCHANGED text

\* await in the text, or an exception of the compiler.
CompileThrows(e) ==
  /\ text[e] # None /\ script[e] = None
  /\ text' = [text EXCEPT ![e] = None]
  /\ UNCHANGED <<entries, recency, script, used>>

\* RunAsync returns or throws.
Run(e) ==
  /\ script[e] # None
  /\ text' = [text EXCEPT ![e] = None] /\ script' = [script EXCEPT ![e] = None]
  /\ UNCHANGED <<entries, recency, used>>

\* ClearCache.
Clear ==
  /\ entries' = <<>> /\ recency' = <<>> /\ used' = <<>>
  /\ UNCHANGED <<text, script>>

CacheNext ==
  \/ \E e \in Executor :
       \/ \E c \in Code : TryGet(e, c) \/ Miss(e, c)
       \/ Compile(e) \/ CompileThrows(e) \/ Run(e)
  \/ Clear

CacheSpec == CacheInit /\ [][CacheNext]_cacheVars

-----------------------------------------------------------------------------
(* Properties.                                                             *)

\* Dictionary and list name the same texts, each once and no more than fit.
CacheTypeOK ==
  /\ ToSet(recency) = DOMAIN entries /\ IsInjective(recency)
  /\ Len(recency) <= Capacity
  /\ \A c \in DOMAIN entries : entries[c] \in Script
  /\ \A e \in Executor : text[e] \in Code \cup {None} /\ script[e] \in Script \cup {None}

\* A script that runs is the one of the text that was sent, and no text that
\* does not compile is kept: the reason the key is the text and not its hash.
ScriptIsOfItsText ==
  /\ \A e \in Executor : script[e] # None => script[e].text = text[e]
  /\ \A c \in DOMAIN entries : entries[c].text = c /\ c \notin Broken

\* The cache holds the texts used last, in that order, whatever was looked up,
\* added twice or evicted and added again.
HoldsTheLastUsed == recency = SubSeq(used, 1, Len(recency)) /\ Len(recency) \in {Capacity, Len(used)}

\* An addition replaces what was there, so that the newest compilation is kept.
NewestIsKept ==
  [][\A e \in Executor :
       text[e] # None /\ script[e] = None /\ script'[e] # None /\ text[e] \notin Broken =>
         text[e] \in DOMAIN entries' /\ entries'[text[e]] = script'[e]]_cacheVars
=============================================================================
