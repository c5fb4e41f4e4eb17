------------------------------ MODULE FaultMgr ------------------------------
(***************************************************************************)
(* The store of diagnostic trouble codes (services/fault_mgr.cpp): a table *)
(* of at most MaxDtc entries, filled in the order in which codes were      *)
(* first set.                                                              *)
(***************************************************************************)
EXTENDS Naturals, Sequences

CONSTANTS
  MaxDtc,           \* kMaxDtc
  MaxOccurrences    \* 0xFFFF, where an occurrence counter saturates

ASSUME FaultConfig == MaxDtc \in Nat /\ MaxOccurrences \in Nat \ {0}

VARIABLE faults

Dtc == { "BatteryLow", "CommsLost", "LockRefusedDoorOpen", "WatchdogReset",
         "UartOverrun", "PostFailed" }

EmptyStore == << >>

\* find() # -1
Stored(store, code) == \E i \in DOMAIN store : store[i].code = code

\* find(): a code is stored at most once, see NoDuplicates.
IndexOf(store, code) ==
  CHOOSE i \in DOMAIN store : store[i].code = code

\* An entry whose code is set again.
SetAgain(entry) ==
  [entry EXCEPT !.occurrences = IF @ < MaxOccurrences THEN @ + 1 ELSE @,
                !.active = TRUE]

SetFault(store, code) ==
  CASE Stored(store, code) ->
         [store EXCEPT ![IndexOf(store, code)] = SetAgain(@)]
    [] ~Stored(store, code) /\ Len(store) >= MaxDtc -> store
    [] ~Stored(store, code) /\ Len(store) < MaxDtc ->
         Append(store, [code |-> code, occurrences |-> 1, active |-> TRUE])

ClearFault(store, code) ==
  IF Stored(store, code)
  THEN [store EXCEPT ![IndexOf(store, code)] = [@ EXCEPT !.active = FALSE]]
  ELSE store

\* set() or clear(), as a condition is present or not.
Mirror(store, code, present) ==
  IF present THEN SetFault(store, code) ELSE ClearFault(store, code)

IsActive(store, code) ==
  Stored(store, code) /\ store[IndexOf(store, code)].active

\* active_codes(): the answer to GET_DTC.
ActiveCodes(store) ==
  {store[i].code : i \in {j \in DOMAIN store : store[j].active}}

-----------------------------------------------------------------------------
(* Properties *)

DtcEntry == [code : Dtc, occurrences : 1 .. MaxOccurrences, active : BOOLEAN]

NoDuplicates(store) ==
  \A i, j \in DOMAIN store : store[i].code = store[j].code => i = j
=============================================================================
