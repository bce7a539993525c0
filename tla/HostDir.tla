------------------------------ MODULE HostDir ------------------------------
(***************************************************************************)
(* A directory of the host behind a disk of the machine: what the two      *)
(* kinds of such disks share (src/io/dev/sp45de_dir.c and crook5fs.c have  *)
(* the same scheduling of the transfers).  The host's programs change the  *)
(* files, a watch reports it later from a thread of its own, and whichever *)
(* side has been quiet for a second is carried over to the other when the  *)
(* machine next reads a sector.                                            *)
(***************************************************************************)
EXTENDS Integers, SequencesExt, FiniteSets

CONSTANTS
  Raws,          \* names of files on the host
  Datas,         \* what the files may hold: sequences of bytes
  MaxTime,       \* bounds: seconds that pass, and changes to files from either side
  MaxChanges

ASSUME HostDirAssumption == MaxTime \in Nat /\ MaxChanges \in Nat /\ \A d \in Datas : Len(d) > 0

SYNC_QUIESCE_SECS == 1
POLL_INTERVAL_SECS == 2
Gone == [data |-> <<>>, mtime |-> -1]

VARIABLES
  host,                     \* the directory
  now,
  noticed,                  \* the system has an event for the watch
  host_dirty, host_evt,     \* set in the thread of the watch
  guest_dirty, last_write, last_poll,
  changes,                  \* counts up to MaxChanges
  watch,                    \* there is a watch; else the directory is polled
  sync                      \* the directory is mounted

clocks == <<guest_dirty, last_write, last_poll>>
hostVars == <<host, now, noticed, host_dirty, host_evt, guest_dirty, last_write, last_poll,
              changes, watch, sync>>

HostDirInit ==
  /\ host \in [Raws -> {Gone} \cup {[data |-> d, mtime |-> 0] : d \in Datas}]
  /\ now = 0 /\ noticed = FALSE
  /\ host_dirty = FALSE /\ host_evt = 0
  /\ guest_dirty = FALSE /\ last_write = 0 /\ last_poll = 0 /\ changes = 0
  /\ watch \in BOOLEAN /\ sync = FALSE

Files == {r \in Raws : host[r] # Gone}

\* the orders in which readdir() may give what is there
Listings == SetToSeqs(Files)

-----------------------------------------------------------------------------
(* The host. *)
HostTick == /\ now < MaxTime /\ now' = now + 1
        /\ UNCHANGED <<host, noticed, host_dirty, host_evt, clocks, changes, watch, sync>>

Changed == changes < MaxChanges /\ changes' = changes + 1

HostPuts(r, d) ==
  /\ Changed
  /\ host' = [host EXCEPT ![r] = [data |-> d, mtime |-> now]] /\ host' # host
  /\ noticed' = watch
  /\ UNCHANGED <<now, host_dirty, host_evt, clocks, watch, sync>>
HostRemoves(r) ==
  /\ Changed
  /\ host[r] # Gone /\ host' = [host EXCEPT ![r] = Gone]
  /\ noticed' = watch
  /\ UNCHANGED <<now, host_dirty, host_evt, clocks, watch, sync>>

(* on_host_change(), in the thread of the watch *)
OnHostChange ==
  /\ noticed /\ noticed' = FALSE
  /\ IF sync THEN host_evt' = now /\ host_dirty' = TRUE ELSE UNCHANGED <<host_evt, host_dirty>>
  /\ UNCHANGED <<host, now, clocks, changes, watch, sync>>

HostMoves == \/ HostTick \/ OnHostChange
             \/ \E r \in Raws : HostRemoves(r) \/ \E d \in Datas : HostPuts(r, d)

-----------------------------------------------------------------------------
(* What a read of a sector does before the sector is copied: nothing, or one *)
(* transfer.  An event that arrives during the transfer is not lost: the     *)
(* flag is cleared first.                                                    *)
WritesSettled == guest_dirty /\ now - last_write >= SYNC_QUIESCE_SECS
HostSettled ==
  /\ ~guest_dirty
  /\ IF watch THEN host_dirty /\ now - host_evt >= SYNC_QUIESCE_SECS
     ELSE now - last_poll >= POLL_INTERVAL_SECS

MaybeSync(guestToHost, hostToGuest, still) ==
  /\ sync
  /\ \/ /\ WritesSettled /\ guestToHost
        /\ guest_dirty' = FALSE /\ last_poll' = now /\ UNCHANGED host_dirty
     \/ /\ HostSettled /\ hostToGuest
        /\ host_dirty' = FALSE /\ last_poll' = now /\ UNCHANGED guest_dirty
     \/ /\ ~WritesSettled /\ ~HostSettled /\ still
        /\ UNCHANGED <<guest_dirty, last_poll, host_dirty>>
  /\ UNCHANGED <<now, host_evt, last_write, changes, watch, sync>>

\* the machine has written a sector
Dirtied == /\ Changed /\ guest_dirty' = TRUE /\ last_write' = now
           /\ UNCHANGED <<host, now, noticed, host_dirty, host_evt, last_poll, watch, sync>>

Mounted == /\ sync' = TRUE /\ guest_dirty' = FALSE /\ host_dirty' = FALSE /\ last_poll' = now
           /\ UNCHANGED <<host, now, noticed, host_evt, last_write, changes, watch>>
Unmounted == /\ sync' = FALSE /\ UNCHANGED <<now, host_dirty, host_evt, clocks, changes, watch>>
=============================================================================
