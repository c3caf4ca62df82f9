---------------------------- MODULE MCHostTables ----------------------------
EXTENDS HostTables, TLC

CONSTANTS self, x, both, readOnly, writeOnly, m1, f, g

\* One port with buffers of its own, one that can only be read, whose
\* buffers the application gives, and one that can only be written.
Descs ==
  [p \in Port |->
     IF p = both
     THEN [readable |-> TRUE, writeable |-> TRUE, pack_buf |-> FALSE,
           unpack_buf |-> FALSE, pack_buf_size |-> 28, unpack_buf_size |-> 64]
     ELSE IF p = readOnly
     THEN [readable |-> TRUE, writeable |-> FALSE, pack_buf |-> TRUE,
           unpack_buf |-> TRUE, pack_buf_size |-> 28, unpack_buf_size |-> 14]
     ELSE [readable |-> FALSE, writeable |-> TRUE, pack_buf |-> FALSE,
           unpack_buf |-> TRUE, pack_buf_size |-> 28, unpack_buf_size |-> 64]]

\* The handlers are interchangeable.
HandlerSymmetry == Permutations({f, g})
=============================================================================
