---------------------------- MODULE MCFuseSched ----------------------------
\* FuseSched for TLC: one inode and one handle, and the key lists that meet on them in
\* every way fuse_dispatch.rs builds them (one key, a pair, a key listed twice, none).
EXTENDS FuseSched

CONSTANTS ino, fh

MCKeys == {ino, fh}

MCRequests ==
    { {<<ino, "Shared">>},
      {<<ino, "Exclusive">>},
      {<<fh, "Shared">>, <<ino, "Exclusive">>},
      {<<fh, "Exclusive">>, <<ino, "Shared">>},
      {<<fh, "Shared">>, <<ino, "Shared">>, <<ino, "Exclusive">>},
      {<<fh, "Shared">>, <<ino, "Shared">>},
      {} }
=============================================================================
