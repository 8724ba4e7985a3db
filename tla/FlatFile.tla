------------------------------ MODULE FlatFile ------------------------------
(***************************************************************************)
(* What a file made of continuations promises to look like: one sequence   *)
(* of blocks ("logically, the two inodes are parts of a single file").     *)
(* A write that works changes the sequence once, at one instant; it fails  *)
(* without effect, and only past the last chunk.  A read returns a piece   *)
(* of the sequence as it is at one instant, perhaps shorter than asked     *)
(* for, and reports the end of the file only from a position that was not  *)
(* inside the file then, or when the read was called.                      *)
(***************************************************************************)
EXTENDS Integers, Sequences

CONSTANTS Tasks,
          PartLen,      \* the blocks that one chunk gives the file
          MaxLen,       \* the blocks that all of them give it
          MaxPos,       \* bound on the positions lseek is given
          None, Err

VARIABLES content,      \* the blocks of the file
          call,         \* call[t]: what t has called, or None
          done,         \* the tasks whose read or write has taken effect
          fpos,         \* fpos[t]: where t's next read or write without a position starts
          got           \* got[t]: what t's last read returned

fvars == <<content, call, done, fpos, got>>

Overwritten(s, p, n, v) ==
    [i \in 1 .. (IF p + n > Len(s) THEN p + n ELSE Len(s)) |->
        IF p < i /\ i <= p + n THEN v ELSE s[i]]

FInit == /\ content = <<>>
         /\ call = [t \in Tasks |-> None]
         /\ done = {}
         /\ fpos = [t \in Tasks |-> 0]
         /\ got = [t \in Tasks |-> <<>>]

Reads  == {"read", "pread"}
Writes == {"write", "pwrite"}

\* A call begins at position at; lo is the length of the file at that moment.
Call(t) == /\ call[t] = None
           /\ \A u \in Tasks \ {t} : call'[u] = call[u]
           /\ call'[t].lo = Len(content)
           /\ call'[t].op \in {"read", "write"} => call'[t].at = fpos[t]
           /\ got' = [got EXCEPT ![t] = <<>>]
           /\ UNCHANGED <<content, done, fpos>>

\* A write takes effect
Put(t) == /\ call[t] # None /\ call[t].op \in Writes /\ t \notin done
          /\ call[t].at <= Len(content)
          /\ content' = Overwritten(content, call[t].at, call[t].n, call[t].v)
          /\ done' = done \cup {t}
          /\ UNCHANGED <<call, fpos, got>>

\* The pieces of the file a read of n blocks at p may return
Pieces(s, p, n) == {SubSeq(s, p + 1, m) : m \in p + 1 .. (IF p + n > Len(s) THEN Len(s) ELSE p + n)}

\* A read takes effect
Get(t) == /\ call[t] # None /\ call[t].op \in Reads /\ t \notin done
          /\ got' = [got EXCEPT ![t] = got'[t]]
          /\ \/ got'[t] \in Pieces(content, call[t].at, call[t].n)
             \/ call[t].at >= Len(content) /\ got'[t] = <<>>
          /\ done' = done \cup {t}
          /\ UNCHANGED <<content, call, fpos>>

\* A call with a position of its own has taken effect, and moves fpos there
Reposition(t) == /\ t \in done /\ call[t].op \in {"pread", "pwrite"}
                 /\ fpos' = [fpos EXCEPT ![t] = call[t].at]
                 /\ UNCHANGED <<content, call, done, got>>

\* The call of t returns, with r
Back(t, r) == /\ call[t] # None
              /\ call' = [call EXCEPT ![t] = None]
              /\ done' = done \ {t}
              /\ got' = [got EXCEPT ![t] = r]
              /\ content' = content

\* A read or write that has taken effect returns.  One without a position
\* leaves fpos past the blocks transferred, but relative to the part they are
\* in: that is the code's deviation from its own comment (PosAdvances).
Worked(t) ==
    LET moved == IF call[t].op \in Reads THEN Len(got[t]) ELSE call[t].n
    IN  /\ t \in done /\ fpos[t] = call[t].at
        /\ Back(t, got[t])
        /\ fpos' = [fpos EXCEPT ![t] = IF call[t].op \in {"read", "write"}
                                       THEN (call[t].at % PartLen) + moved ELSE @]

\* A read that has not got anything was called at or after the end of the file
AtEof(t) == /\ call[t].op \in Reads /\ t \notin done /\ call[t].at >= call[t].lo
            /\ Back(t, <<>>)
            /\ fpos' = fpos

\* Only a write past the last chunk fails
NoSpace(t) == /\ call[t].op \in Writes /\ t \notin done /\ call[t].at >= MaxLen
              /\ Back(t, Err)
              /\ fpos' = fpos

\* open and fsync return
Other(t) == /\ call[t].op \notin Reads \cup Writes
            /\ Back(t, got[t])
            /\ fpos' = fpos

Ret(t) == Worked(t) \/ AtEof(t) \/ NoSpace(t) \/ Other(t)

\* lseek, and close, after which t's next open file begins at 0
Move(t) == /\ call[t] = None
           /\ fpos'[t] \in 0 .. MaxPos
           /\ fpos' = [fpos EXCEPT ![t] = fpos'[t]]
           /\ got' = [got EXCEPT ![t] = <<>>]
           /\ UNCHANGED <<content, call, done>>

FNext == \E t \in Tasks : Reposition(t) \/ Call(t) \/ Put(t) \/ Get(t) \/ Ret(t) \/ Move(t)

FSpec == FInit /\ [][FNext]_fvars
=============================================================================
