--------------------------- MODULE ExtentProtocol ---------------------------
(***************************************************************************)
(* The vocabulary shared by the extent layer and its clients               *)
(* (extent_protocol.h).                                                    *)
(***************************************************************************)
EXTENDS Integers

\* enum types.  T_SYMLINK is used by yfs_client.cc but the enum of this commit
\* does not declare it; it is given the next enumerator's value.
T_DIR     == 1
T_FILE    == 2
T_SYMLINK == 3
Types     == {T_DIR, T_FILE, T_SYMLINK}

\* The type of a zeroed inode: free_inode's memset, a fresh disk's bzero, and
\* what getattr reports for an inode that does not exist.
T_NONE == 0

\* enum rpc_numbers.
put     == 24577  \* 0x6001
get     == put + 1
getattr == put + 2
remove  == put + 3
=============================================================================
