------------------------------- MODULE Badcall ------------------------------
(***************************************************************************)
(* badcall, the program that makes system calls with bad arguments and     *)
(* judges the errors.  A test is the sequence of its instructions, and     *)
(* each instruction that is a system call is a step of its process, so the *)
(* tests that fork run in every interleaving of parent and children.       *)
(*                                                                         *)
(* A user picks tests from the menu in any order; in the course of the     *)
(* session at most MaxFaults calls fail for want of kernel memory.         *)
(***************************************************************************)
EXTENDS Syscalls

CONSTANTS Volumes,        \* the kinds of file system to run on
          Menu,           \* the operations the user picks
          MaxPicks, MaxFaults

TESTFILE == "badcallfile"
TESTDIR  == "badcalldir"
TESTLINK == "badcalllink"
CLOSED_FD == 5
IMPOSSIBLE_FD == 99
NONEXIST_PID  == 99
MAGIC_STATUS  == 107

(***************************************************************************)
(* Instructions.  Variables of the C functions are numbers above 1000.     *)
(***************************************************************************)
FD       == 1001
SEMFD    == 1002
PID      == 1003
PID0     == 1004
PID1     == 1005
OTHERPID == 1006
MYPID    == 1007

Begin(test)   == <<"begin", test>>
Call(c)       == <<"call", c>>
Let(r, c)     == <<"let", r, c>>
Say(verdict)  == <<"say", verdict>>
If(errs, yes, no) == <<"if", errs, yes, no>>      \* on the last call's error
Fork(r, child)    == <<"fork", r, child>>
Until(n, body)    == <<"until", n, body>>         \* a read of n bytes
Sibling(yes)      == <<"sibling", yes>>
IfStatus(st, yes, no) == <<"status", st, yes, no>>  \* on the last child's status
IfRv(pos, yes, no)    == <<"rv", pos, yes, no>>
Exit(status)      == Call(<<"_exit", status>>)

passed == Say("passed")
FAILURE == Say("FAILURE")
skipped == Say("skipped")
report_aborted == Say("ABORTED")

\* Any error will do as long as the system survives.
report_survival == passed
report_check(okerrs) ==
  If(okerrs, <<passed>>, <<If({"ENOSYS"}, <<skipped>>, <<FAILURE>>)>>)

(***************************************************************************)
(* driver.c: the files that the tests work on.  An If whose condition is   *)
(* {"OK"} goes on with the test.                                           *)
(***************************************************************************)
open_testfile(len, yes, no) ==
  <<Let(FD, <<"open", TESTFILE, {"O_RDWR", "O_CREAT", "O_TRUNC"}>>),
    If({"OK"},
       IF len = 0 THEN yes
       ELSE <<Call(<<"write", FD, "ptr", len, <<>> >>),
              If({"OK"},
                 <<Call(<<"lseek", FD, 0, "SEEK_SET">>),
                   If({"OK"}, yes,
                      <<Call(<<"close", FD>>), Call(<<"remove", TESTFILE>>)>> \o no)>>,
                 <<Call(<<"close", FD>>), Call(<<"remove", TESTFILE>>)>> \o no)>>,
       no)>>

create_testfile(yes, no) ==
  open_testfile(0, <<Call(<<"close", FD>>), If({"OK"}, yes, no)>>, no)

create_testdir(yes) ==
  <<Call(<<"mkdir", TESTDIR>>),
    If({"OK"}, yes, <<If({"ENOSYS"}, <<skipped>>, <<report_aborted>>)>>)>>

create_testlink == <<Call(<<"symlink", "blahblah", TESTLINK>>)>>

(***************************************************************************)
(* common_fds.c                                                            *)
(***************************************************************************)
\* The calls on a bad descriptor, each to be made on every one of Fds.
badfd(fd) ==
  [read |-> <<"read", fd, "ptr", 128>>, write |-> <<"write", fd, "ptr", 128, <<>> >>,
   close |-> <<"close", fd>>, ioctl |-> <<"ioctl", fd, 0, "NULL">>,
   lseek |-> <<"lseek", fd, 0, "SEEK_SET">>, fsync |-> <<"fsync", fd>>,
   ftruncate |-> <<"ftruncate", fd, 60>>, fstat |-> <<"fstat", fd, "ptr">>,
   getdirentry |-> <<"getdirentry", fd, "ptr">>, dup2 |-> <<"dup2", fd, CLOSED_FD + 1>>]
dup2_cleanup == <<Call(<<"close", CLOSED_FD + 1>>)>>

any_badfd(call, cleanup, name) ==
  <<Begin(name), Call(call), report_check({"EBADF"})>> \o cleanup

reopen_testfile(mode, yes) ==
  <<Let(FD, <<"open", TESTFILE, {mode, "O_CREAT"}>>), If({"OK"}, yes, <<>>)>>

ForEach(seq, Test(_)) ==
  LET upto[i \in 0..Len(seq)] == IF i = 0 THEN <<>> ELSE upto[i - 1] \o Test(seq[i])
  IN  upto[Len(seq)]

Fds == <<0 - 1, 0 - 5, CLOSED_FD, IMPOSSIBLE_FD, OPEN_MAX>>

\* mode is that of an open file that the call may not use, if there is one.
runtest(call, cleanup, mode) ==
  LET bad(fd) == any_badfd(badfd(fd)[call], cleanup, call \o "_fd")
  IN  ForEach(Fds, bad)
      \o IF mode = "none" THEN <<>>
         ELSE reopen_testfile(mode, bad(FD)) \o <<Call(<<"close", FD>>)>>

\* The macros T and TC: test_read_fd, test_write_fd, ... test_dup2_fd.
test_fd(call) ==
  runtest(call, IF call = "dup2" THEN dup2_cleanup ELSE <<>>,
          CASE call \in {"read", "getdirentry"}   -> "O_WRONLY"
            [] call \in {"write", "ftruncate"}    -> "O_RDONLY"
            [] OTHER                              -> "none")

(***************************************************************************)
(* common_buf.c and common_path.c                                          *)
(***************************************************************************)
Pointers == <<"NULL", "INVAL_PTR", "KERN_PTR">>

\* What comes before, the call, and what comes after.
badbuf(ptr) ==
  LET file == <<Call(<<"close", FD>>), Call(<<"remove", TESTFILE>>)>>
  IN  [read |-> <<open_testfile(32, <<>>, <<>>), <<"read", FD, ptr, 128>>, file>>,
       write |-> <<open_testfile(0, <<>>, <<>>), <<"write", FD, ptr, 128, <<>> >>, file>>,
       getdirentry |-> <<<<Let(FD, <<"open", ".", {"O_RDONLY"}>>)>>, <<"getdirentry", FD, ptr>>,
                         <<Call(<<"close", FD>>)>> >>,
       readlink |-> <<create_testlink, <<"readlink", TESTLINK, ptr, 168>>,
                      <<Call(<<"remove", TESTLINK>>)>> >>,
       getcwd |-> <<<<>>, <<"__getcwd", ptr>>, <<>> >>]

\* any_badbuf for each call (macro T).  A setup that fails is not noticed.
test_buf(call) ==
  LET common_badbuf(ptr) ==
        LET b == badbuf(ptr)[call] IN
        <<Begin(call \o "_buf")>> \o b[1] \o <<Call(b[2]), report_check({"EFAULT"})>> \o b[3]
  IN  ForEach(Pointers, common_badbuf)

\* The calls with a bad path, and those with a bad first or second path.
badpath(ptr) ==
  [open |-> <<"open", ptr, {"O_RDONLY"}>>, remove |-> <<"remove", ptr>>,
   rename1 |-> <<"rename", ptr, TESTFILE>>, rename2 |-> <<"rename", TESTFILE, ptr>>,
   link1 |-> <<"link", ptr, TESTFILE>>, link2 |-> <<"link", TESTFILE, ptr>>,
   mkdir |-> <<"mkdir", ptr>>, rmdir |-> <<"rmdir", ptr>>, chdir |-> <<"chdir", ptr>>,
   symlink1 |-> <<"symlink", ptr, TESTFILE>>, symlink2 |-> <<"symlink", TESTFILE, ptr>>,
   readlink |-> <<"readlink", ptr, "ptr", 128>>, lstat |-> <<"lstat", ptr, "ptr">>,
   stat |-> <<"stat", ptr, "ptr">>]

any_badpath(call, name, mk, rm) ==
  LET test(ptr) == <<Call(badpath(ptr)[call]), report_check({"EFAULT"})>>
                     \o IF mk \/ rm THEN <<Call(<<"remove", TESTFILE>>)>> ELSE <<>>
      common_badpath(ptr) ==
        <<Begin(name)>>
          \o IF mk THEN create_testfile(test(ptr), <<report_aborted>>) ELSE test(ptr)
  IN  ForEach(Pointers, common_badpath)

\* The macros T and T2.
test_path(call) == any_badpath(call, call \o "_path", FALSE, FALSE)
test_paths(call) ==
  any_badpath(call \o "1", call \o "_paths", FALSE, TRUE)
    \o any_badpath(call \o "2", call \o "_paths", TRUE, TRUE)

(***************************************************************************)
(* bad_<call>.c, one definition for each file.  Test is a call and the     *)
(* errors that pass.                                                       *)
(***************************************************************************)
Test(name, c, okerrs) == <<Begin(name), Call(c), report_check(okerrs)>>
IfOK(prog) == <<If({"OK"}, prog, <<>>)>>

test_chdir == test_path("chdir") \o Test("chdir_empty", <<"chdir", "">>, {"EINVAL", "OK"})
test_close == test_fd("close")
test_fsync == test_fd("fsync")
test_getcwd == test_buf("getcwd")
test_getdirentry == test_fd("getdirentry") \o test_buf("getdirentry")
test_ioctl == test_fd("ioctl") \o Test("ioctl_badcode", <<"ioctl", 0, 12345, "NULL">>, {"EIOCTL"})
test_read  == test_fd("read") \o test_buf("read")
test_reboot == Test("reboot_badflags", <<"reboot", "15353">>, {"EINVAL"})
test_write == test_fd("write") \o test_buf("write")

test_dup2 ==
  LET dup2_fd2(fd) ==
        Test("dup2_fd2", <<"dup2", 0, fd>>, {"EBADF"}) \o IfOK(<<Call(<<"close", fd>>)>>)
      dup2_self ==             \* it is closed only if it could be made
        <<Begin("dup2_self"), Call(<<"dup2", 0, CLOSED_FD>>),
          If({"OK"},
             <<Call(<<"dup2", CLOSED_FD, CLOSED_FD>>), If({"OK"}, <<passed>>, <<FAILURE>>),
               Call(<<"fstat", CLOSED_FD, "ptr">>),
               If({"OK"}, <<passed>>,
                  <<If({"ENOSYS"},
                       <<skipped, Call(<<"lseek", CLOSED_FD, 0, "SEEK_CUR">>),
                         If({"OK", "ESPIPE"}, <<passed>>, <<FAILURE>>)>>,
                       <<FAILURE>>)>>),
               Call(<<"close", CLOSED_FD>>)>>,
             <<report_aborted>>)>>
  IN  test_fd("dup2") \o ForEach(<<0 - 1, 0 - 5, IMPOSSIBLE_FD, OPEN_MAX>>, dup2_fd2) \o dup2_self

\* The call is made in a child, whose exit code shows that it came back.
exec_common_fork(name, prog, args, arg, okerrs) ==
  <<Begin(name),
    Fork(PID, <<Call(<<"execv", prog, args, arg>>), report_check(okerrs), Exit(MAGIC_STATUS)>>),
    If({"OK"},
       <<Call(<<"waitpid", PID, "ptr", 0>>),
         If({"OK"}, <<IfStatus(MAGIC_STATUS, <<>>, <<FAILURE>>)>>, <<FAILURE>>)>>,
       <<report_aborted>>)>>
test_execv ==
  LET exec_badprog(prog) == exec_common_fork("exec_badprog", prog, "ptr", "foo", {"EFAULT"})
      exec_emptyprog ==
        exec_common_fork("exec_emptyprog", "", "ptr", "foo", {"EINVAL", "EISDIR"})
      exec_badargs(args) == exec_common_fork("exec_badargs", "/bin/true", args, "foo", {"EFAULT"})
      exec_onearg(arg) == exec_common_fork("exec_onearg", "/bin/true", "ptr", arg, {"EFAULT"})
  IN  ForEach(Pointers, exec_badprog) \o exec_emptyprog \o ForEach(Pointers, exec_badargs)
        \o exec_onearg("INVAL_PTR") \o exec_onearg("KERN_PTR")

OnDevice(name, mode, c, okerrs) ==
  <<Begin(name), Let(FD, <<"open", "null:", {mode}>>),
    If({"OK"}, <<Call(c), report_check(okerrs), Call(<<"close", FD>>)>>, <<report_aborted>>)>>
OnTestfile(name, c, okerrs) ==
  <<Begin(name)>> \o
  open_testfile(0, <<Call(c), report_check(okerrs), Call(<<"close", FD>>),
                     Call(<<"remove", TESTFILE>>)>>, <<report_aborted>>)
test_ftruncate ==
  test_fd("ftruncate")
    \o OnDevice("ftruncate_fd_device", "O_RDWR", <<"ftruncate", FD, 6>>, {"EINVAL"})
    \o OnTestfile("ftruncate_size_neg", <<"ftruncate", FD, 0 - 60>>, {"EINVAL"})

OnTestdir(name, c, okerrs) ==
  <<Begin(name)>> \o create_testdir(<<Call(c), report_check(okerrs), Call(<<"rmdir", TESTDIR>>)>>)
test_link ==
  test_paths("link")
    \o Test("link_dir", <<"link", ".", TESTDIR>>, {"EINVAL"}) \o IfOK(<<Call(<<"remove", TESTDIR>>)>>)
    \o Test("link_empty1", <<"link", "", TESTDIR>>, {"EINVAL"})
    \o OnTestdir("link_empty2", <<"link", TESTDIR, "">>, {"EINVAL"})

\* The child moves the file to its standard input.
lseek_file_stdin ==
  LET GiveUp(closing) == closing \o <<Call(<<"remove", TESTFILE>>), Exit(1)>>
      child ==
        open_testfile(0,
          <<Call(<<"dup2", FD, 0>>),
            If({"OK"},
               <<Call(<<"close", FD>>), Call(<<"write", 0, "ptr", 41, <<>> >>),
                 If({"OK"},
                    <<skipped, Call(<<"lseek", 0, 0, "SEEK_SET">>), report_check({"OK"}),
                      Call(<<"lseek", 0, 0, "SEEK_END">>), report_check({"OK"}),
                      Call(<<"remove", TESTFILE>>), Exit(0)>>,
                    GiveUp(<<>>))>>,
               GiveUp(<<Call(<<"close", FD>>)>>))>>,
          <<Exit(0)>>)
  IN  <<Begin("lseek_file_stdin"), Fork(PID, child),
        If({"OK"},
           <<Call(<<"waitpid", PID, "ptr", 0>>),
             If({"OK"}, <<>>, <<report_aborted>>),
             IfStatus(0, <<>>, <<report_aborted>>)>>,
           <<report_aborted>>)>>
\* Each seek must return the place that it should.
lseek_loc_pasteof ==
  LET out == <<Call(<<"close", FD>>), Call(<<"remove", TESTFILE>>)>>
      Seek(offset, whence, pos, yes) ==
        <<Call(<<"lseek", FD, offset, whence>>), IfRv(pos, yes, <<FAILURE>>)>>
  IN  <<Begin("lseek_loc_pasteof")>> \o
      open_testfile(8, Seek(5340, "SEEK_SET", 5340, Seek(0 - 50, "SEEK_CUR", 5290,
                         Seek(0, "SEEK_END", 8, <<passed>>))) \o out,
                    <<report_aborted>>)
test_lseek ==
  test_fd("lseek") \o OnDevice("lseek_fd_device", "O_RDONLY", <<"lseek", FD, 309, "SEEK_SET">>, {"ESPIPE"})
    \o lseek_file_stdin
    \o OnTestfile("lseek_loc_negative", <<"lseek", FD, 0 - 309, "SEEK_SET">>, {"EINVAL"})
    \o lseek_loc_pasteof
    \o OnTestfile("lseek_whence_inval", <<"lseek", FD, 0, "3594">>, {"EINVAL"})

test_mkdir ==
  test_path("mkdir") \o Test("mkdir_dot", <<"mkdir", ".">>, {"EEXIST"})
    \o Test("mkdir_dotdot", <<"mkdir", "..">>, {"EEXIST"})
    \o Test("mkdir_empty", <<"mkdir", "">>, {"EINVAL"})

test_open ==
  test_path("open")
    \o Test("open_badflags", <<"open", "null:", {"badflags", "O_RDWR"}>>, {"EINVAL"})
    \o <<Begin("open_empty"), Let(FD, <<"open", "", {"O_RDONLY"}>>), report_check({"EINVAL"})>>
    \o IfOK(<<Call(<<"close", FD>>)>>)

test_pipe ==
  LET pipe_badptr(ptr) == Test("pipe_badptr", <<"pipe", ptr>>, {"EFAULT"})
  IN  ForEach(Pointers, pipe_badptr)
        \o <<Begin("pipe_unaligned"), Call(<<"pipe", "ptr">>), report_survival>>

test_readlink ==
  test_path("readlink") \o test_buf("readlink")
    \o <<Begin("readlink_file")>>
    \o open_testfile(43, <<Call(<<"close", FD>>), Call(<<"readlink", TESTFILE, "ptr", 128>>),
                           report_check({"EINVAL"}), Call(<<"remove", TESTFILE>>)>>,
                     <<report_aborted>>)
    \o Test("readlink_dir", <<"readlink", ".", "ptr", 128>>, {"EISDIR"})
    \o Test("readlink_empty", <<"readlink", "", "ptr", 128>>, {"EISDIR", "EINVAL"})

test_remove ==
  test_path("remove") \o OnTestdir("remove_dir", <<"remove", TESTDIR>>, {"EISDIR"})
    \o Test("remove_dot", <<"remove", ".">>, {"EISDIR", "EINVAL"})
    \o Test("remove_dotdot", <<"remove", "..">>, {"EISDIR", "EINVAL"})
    \o Test("remove_empty", <<"remove", "">>, {"EISDIR", "EINVAL"})

\* A rename that works is undone.
test_rename ==
  LET Undo(name) == IfOK(<<Call(<<"rename", TESTDIR, name>>)>>)
  IN  test_paths("rename")
        \o Test("rename_dot", <<"rename", ".", TESTDIR>>, {"EINVAL"}) \o Undo(".")
        \o Test("rename_dotdot", <<"rename", "..", TESTDIR>>, {"EINVAL"}) \o Undo("..")
        \o Test("rename_empty1", <<"rename", "", TESTDIR>>, {"EISDIR", "EINVAL"})
        \o Undo("badcalldir-foo")
        \o OnTestdir("rename_empty2", <<"rename", TESTDIR, "">>, {"EISDIR", "EINVAL"})

test_rmdir ==
  test_path("rmdir") \o <<Begin("rmdir_file")>>
    \o create_testfile(<<Call(<<"rmdir", TESTFILE>>), report_check({"ENOTDIR"}),
                         Call(<<"remove", TESTFILE>>)>>, <<report_aborted>>)
    \o Test("rmdir_dot", <<"rmdir", ".">>, {"EINVAL"})
    \o Test("rmdir_dotdot", <<"rmdir", "..">>, {"EINVAL", "ENOTEMPTY"})
    \o Test("rmdir_empty", <<"rmdir", "">>, {"EINVAL"})

\* There is no sbrk; its five tests differ in the error that they expect.
test_sbrk ==
  LET enforce_sbrk(val, okerrs) == Test("sbrk", <<"sbrk", val>>, okerrs)
      huge == 4096 * 1024 * 256
  IN  enforce_sbrk(0 - 8192, {"EINVAL"}) \o enforce_sbrk(huge, {"ENOMEM"})
        \o enforce_sbrk(0 - huge, {"EINVAL"}) \o enforce_sbrk(17, {"OK", "EINVAL"})
        \o enforce_sbrk(0 - 17, {"OK", "EINVAL"})

\* bad_stat.c: fstat, lstat and stat into a bad buffer, and on an empty path.
badbuf_stat(call, file) ==
  LET bad(sb) == Test(call \o "_buf", <<call, file, sb>>, {"EFAULT"}) IN ForEach(Pointers, bad)
any_empty(call) == Test("any_empty", <<call, "", "ptr">>, {"OK", "EINVAL"})
test_fstat == test_fd("fstat") \o badbuf_stat("fstat", 0)
test_lstat == test_path("lstat") \o any_empty("lstat") \o badbuf_stat("lstat", "null:")
test_stat  == test_path("stat") \o any_empty("stat") \o badbuf_stat("stat", "null:")

test_symlink ==
  test_paths("symlink")
    \o Test("symlink_empty1", <<"symlink", "", TESTLINK>>, {"OK", "EINVAL"})
    \o <<Call(<<"remove", TESTLINK>>)>>
    \o Test("symlink_empty2", <<"symlink", "foo", "">>, {"EINVAL"})

test_time ==
  LET time_badsecs(ptr)  == Test("time_badsecs", <<"__time", ptr, "NULL">>, {"EFAULT"})
      time_badnsecs(ptr) == Test("time_badnsecs", <<"__time", "NULL", ptr>>, {"EFAULT"})
  IN  ForEach(<<"INVAL_PTR", "KERN_PTR">>, time_badsecs)
        \o ForEach(<<"INVAL_PTR", "KERN_PTR">>, time_badnsecs)

(***************************************************************************)
(* bad_waitpid.c                                                           *)
(***************************************************************************)
wait_badpid(pid) ==
  Test("wait_badpid", <<"waitpid", pid, "ptr", 0>>,
       {"ESRCH", "ECHILD"} \cup IF pid <= 0 THEN {"ENOSYS"} ELSE {})

\* A child that exits at once is waited for.
WithChild(name, test) ==
  <<Begin(name), Fork(PID, <<Exit(0)>>), If({"OK"}, test, <<report_aborted>>)>>
WaitAgain == Call(<<"waitpid", PID, "ptr", 0>>)
wait_nullstatus ==
  WithChild("wait_nullstatus",
            <<Call(<<"waitpid", PID, "NULL", 0>>), report_check({"OK"}), WaitAgain>>)
wait_badstatus(ptr) ==
  WithChild("wait_badstatus",
            <<Call(<<"waitpid", PID, ptr, 0>>), report_check({"EFAULT"}), WaitAgain>>)
wait_unaligned ==
  WithChild("wait_unaligned",
            <<Call(<<"waitpid", PID, "ptr", 0>>), report_survival,
              If({"OK"}, <<>>, <<WaitAgain>>)>>)
wait_badflags ==
  WithChild("wait_badflags",
            <<Call(<<"waitpid", PID, "ptr", 309429>>), report_check({"EINVAL"}), WaitAgain>>)
wait_self ==
  <<Begin("wait_self"), Let(MYPID, <<"getpid">>), Call(<<"waitpid", MYPID, "ptr", 0>>),
    report_survival>>
wait_parent ==
  <<Begin("wait_parent"), Let(MYPID, <<"getpid">>),
    Fork(PID, <<Call(<<"waitpid", MYPID, "ptr", 0>>), report_survival, Exit(0)>>),
    If({"OK"}, <<Call(<<"waitpid", PID, "ptr", 0>>), report_survival>>, <<report_aborted>>)>>

\* The semaphore holds the child until the numbers of both are in the file;
\* without it the child reads the file until they are.
wait_siblings_child(semname) ==
  <<Let(MYPID, <<"getpid">>), Let(SEMFD, <<"open", semname, {"O_RDONLY"}>>),
    If({"OK"}, <<Call(<<"read", SEMFD, "ptr", 1>>), Call(<<"close", SEMFD>>)>>, <<>>),
    Let(FD, <<"open", TESTFILE, {"O_RDONLY"}>>),
    If({"OK"},
       <<Call(<<"lseek", FD, 0, "SEEK_SET">>), Call(<<"read", FD, "ptr", 8>>),
         Until(8, <<Call(<<"lseek", FD, 0, "SEEK_SET">>), Call(<<"read", FD, "ptr", 8>>)>>),
         Sibling(<<Call(<<"close", FD>>), Call(<<"waitpid", OTHERPID, "ptr", 0>>),
                   report_survival>>)>>,
       <<>>)>>

\* When the second fork fails the first child is abandoned.
wait_siblings ==
  LET semname == "sem:badcall"
      child == <<Call(<<"close", FD>>), Call(<<"close", SEMFD>>)>>
                 \o wait_siblings_child(semname) \o <<Exit(0)>>
      GiveUp == <<report_aborted, Call(<<"close", FD>>), Call(<<"close", SEMFD>>),
                  Call(<<"remove", semname>>)>>
      wait1(bad) == <<Call(<<"waitpid", PID1, "ptr", 0>>),
                      If({"OK"}, <<IF bad THEN report_aborted ELSE passed>>, <<report_aborted>>)>>
      wait0(bad) == <<Call(<<"waitpid", PID0, "ptr", 0>>), If({"OK"}, wait1(bad), wait1(TRUE))>>
      gate == <<Call(<<"write", SEMFD, "ptr", 2, <<>> >>),
                If({"OK"}, wait0(FALSE), wait0(TRUE)),
                Call(<<"close", FD>>), Call(<<"close", SEMFD>>),
                Call(<<"remove", semname>>), Call(<<"remove", TESTFILE>>)>>
  IN  <<Begin("wait_siblings"), Let(SEMFD, <<"open", semname, {"O_WRONLY", "O_CREAT", "O_TRUNC"}>>),
        If({"OK"},
           open_testfile(0,
             <<Fork(PID0, child),
               If({"OK"},
                  <<Fork(PID1, child),
                    If({"OK"},
                       <<Call(<<"write", FD, "ptr", 8, <<PID0, PID1>> >>),
                         IfRv(8, gate, GiveUp)>>,
                       GiveUp)>>,
                  GiveUp)>>,
             <<report_aborted, Call(<<"close", SEMFD>>), Call(<<"remove", semname>>)>>),
           <<report_aborted>>)>>

test_waitpid == wait_badpid(0 - 8) \o wait_badpid(0 - 1) \o wait_badpid(0)
                  \o wait_badpid(NONEXIST_PID) \o wait_nullstatus
                  \o wait_badstatus("INVAL_PTR") \o wait_badstatus("KERN_PTR")
                  \o wait_unaligned \o wait_badflags \o wait_self \o wait_parent
                  \o wait_siblings

(***************************************************************************)
(* driver.c: the menu.                                                     *)
(***************************************************************************)
menu_ops == <<<<"execv", 2, test_execv>>, <<"waitpid", 2, test_waitpid>>, <<"open", 2, test_open>>,
         <<"read", 2, test_read>>, <<"write", 2, test_write>>, <<"close", 2, test_close>>,
         <<"reboot", 0, test_reboot>>, <<"sbrk", 3, test_sbrk>>, <<"ioctl", 5, test_ioctl>>,
         <<"lseek", 2, test_lseek>>, <<"fsync", 4, test_fsync>>,
         <<"ftruncate", 4, test_ftruncate>>, <<"fstat", 4, test_fstat>>,
         <<"remove", 4, test_remove>>, <<"rename", 4, test_rename>>, <<"link", 5, test_link>>,
         <<"mkdir", 4, test_mkdir>>, <<"rmdir", 4, test_rmdir>>, <<"chdir", 2, test_chdir>>,
         <<"getdirentry", 4, test_getdirentry>>, <<"symlink", 5, test_symlink>>,
         <<"readlink", 5, test_readlink>>, <<"dup2", 2, test_dup2>>, <<"pipe", 5, test_pipe>>,
         <<"__time", 5, test_time>>, <<"__getcwd", 2, test_getcwd>>, <<"stat", 5, test_stat>>,
         <<"lstat", 5, test_lstat>> >>

\* A number picks the tests of the assignments up to it, "*" is beyond all.
runit(op) ==
  LET body(o) == IF op \in {"1", "2", "3", "4", "*"}
                 THEN IF o[2] <= CASE op = "1" -> 1 [] op = "2" -> 2 [] op = "3" -> 3
                                   [] op = "4" -> 4 [] op = "*" -> 9
                      THEN o[3] ELSE <<>>
                 ELSE IF o[1] = op THEN o[3] ELSE <<>>
  IN  ForEach(menu_ops, body)

(***************************************************************************)
(* The processes.                                                          *)
(***************************************************************************)
VARIABLES
  kern,      \* the kernel
  procs,     \* the running processes: what is left to do, and the C variables
  said,      \* the verdicts of the test that was picked last
  item,      \* that test, or "none"
  before,    \* the names in the directory when it began
  faultin,   \* the tests in which a call found no memory
  picks

badcallVars == <<kern, procs, said, item, before, faultin, picks>>

main == 1                                     \* badcall's pid
Programs == "none" :> <<>> @@ [op \in Menu |-> runit(op)]

\* prog is what is left of the current statement, pc the statements of the
\* test that have begun; a child ends with its statement.
Process(prog, reg, test) ==
  [prog |-> prog, op |-> "none", pc |-> 0, reg |-> reg, test |-> test, err |-> "OK",
   rv |-> 0, status |-> 0, got |-> <<>>]

BadcallInit ==
  /\ kern \in {open_stdfds(main, v) : v \in Volumes}
  /\ procs = main :> Process(<<>>, [r \in FD..MYPID |-> 0 - 1], "none")
  /\ said = {} /\ item = "none" /\ before = {} /\ faultin = {} /\ picks = 0

\* The instructions before the next system call are done with the last one.
RECURSIVE Advance(_, _)
Advance(u, p) ==
  IF u.prog = <<>>
  THEN LET Statement(test) ==
             IF u.pc = Len(test) THEN [u |-> [u EXCEPT !.op = "none", !.pc = 0], said |-> {}]
             ELSE Advance([u EXCEPT !.prog = <<test[u.pc + 1]>>, !.pc = @ + 1], p)
       IN  IF u.op = "none" THEN [u |-> u, said |-> {}] ELSE Statement(Programs[u.op])
  ELSE
    LET i    == Head(u.prog)
        Go(prog) == Advance([u EXCEPT !.prog = prog \o Tail(@)], p)
        other == IF p = u.got[1] THEN u.got[2] ELSE u.got[1]
    IN  CASE i[1] = "begin" -> Advance([u EXCEPT !.prog = Tail(@), !.test = i[2]], p)
          [] i[1] = "say" -> LET r == Go(<<>>) IN
                             [r EXCEPT !.said = @ \cup {<<u.test, i[2]>>}]
          [] i[1] = "if" -> Go(IF u.err \in i[2] THEN i[3] ELSE i[4])
          [] i[1] = "rv" -> Go(IF u.rv = i[2] THEN i[3] ELSE i[4])
          [] i[1] = "status" -> Go(IF u.status = i[2] THEN i[3] ELSE i[4])
          [] i[1] = "until" -> Go(IF u.rv >= i[2] \/ u.err # "OK" THEN <<>> ELSE i[3] \o <<i>>)
          [] i[1] = "sibling" ->
               IF u.got # <<>> /\ \E j \in 1..2 : u.got[j] = p
               THEN Advance([u EXCEPT !.prog = i[2] \o Tail(@), !.reg[OTHERPID] = other], p)
               ELSE Go(<<>>)
          [] OTHER -> [u |-> u, said |-> {}]

Val(u, x) == IF x >= FD THEN u.reg[x] ELSE x
Resolve(u, c) ==
  CASE c[1] = "dup2"  -> <<c[1], Val(u, c[2]), c[3]>>
    [] c[1] = "write" -> [c EXCEPT ![2] = Val(u, @), ![5] = [j \in DOMAIN @ |-> Val(u, @[j])]]
    [] c[1] \in {"read", "close", "lseek", "fsync", "ftruncate", "fstat", "getdirentry",
                 "waitpid"} -> [c EXCEPT ![2] = Val(u, @)]
    [] OTHER -> c

\* What the process knows after its call; a fork starts the child as well.
Returned(p, u, i, c, o) ==
  LET waited == c[1] = "waitpid" /\ o.err = "OK"
      parent == [u EXCEPT !.prog = Tail(@), !.err = o.err, !.rv = o.rv,
                          !.reg  = IF i[1] = "call" THEN @ ELSE [@ EXCEPT ![i[2]] = o.rv],
                          !.got  = IF c[1] = "read" /\ o.rv > 0 THEN ObjectOf(kern, p, c[2]).data
                                   ELSE @,
                          !.status = IF waited THEN kern.procs[c[2]].status ELSE @]
      child == IF i[1] = "fork" /\ o.err = "OK" THEN o.rv :> Process(i[3], u.reg, u.test) ELSE <<>>
      Goes(done) == [k |-> o.k, procs |-> [q \in DOMAIN done |-> done[q].u] @@ procs,
                     said |-> said \cup done[p].said]
      Resume(going) == Goes([q \in DOMAIN going |-> Advance(going[q], q)])
  IN  IF c[1] = "_exit" THEN [k |-> o.k, procs |-> Drop(procs, {p}), said |-> said]
      ELSE Resume(p :> parent @@ child)

Become(s) == kern' = s.k /\ procs' = s.procs /\ said' = s.said

Instruction(p) == Head(procs[p].prog)
CallOf(p) ==
  LET i == Instruction(p)
  IN  Resolve(procs[p], CASE i[1] = "call" -> i[2] [] i[1] = "let" -> i[3]
                          [] i[1] = "fork" -> <<"fork">>)

\* A call returns, or finds no memory.
Outcomes(p, c) ==
  {<<o, faultin>> : o \in syscall(kern, p, c)}
    \cup {<<o, faultin \cup {item}>> : o \in IF Cardinality(faultin) < MaxFaults
                                             THEN NoMemory(kern, p, c) ELSE {}}

ProcessStep(p) ==
  /\ procs[p].prog # <<>>
  /\ \E x \in Outcomes(p, CallOf(p)) :
       /\ Become(Returned(p, procs[p], Instruction(p), CallOf(p), x[1]))
       /\ faultin' = x[2]
  /\ UNCHANGED <<item, before, picks>>

Idle == main \in DOMAIN procs /\ procs[main].prog = <<>>

Pick(op) ==
  /\ Idle /\ picks < MaxPicks
  /\ picks' = picks + 1
  /\ item' = op
  /\ before' = DOMAIN kern.names
  /\ said' = {}
  /\ procs' = [procs EXCEPT ![main] = Advance([@ EXCEPT !.op = op], main).u]
  /\ UNCHANGED <<kern, faultin>>

Quit ==
  /\ Idle
  /\ kern' \in {o.k : o \in sys__exit(kern, main, 0)}
  /\ procs' = Drop(procs, {main})
  /\ UNCHANGED <<said, item, before, faultin, picks>>

BadcallNext == (\E p \in DOMAIN procs : ProcessStep(p)) \/ (\E op \in Menu : Pick(op)) \/ Quit

BadcallSpec == BadcallInit /\ [][BadcallNext]_badcallVars

-----------------------------------------------------------------------------
\* The tests that do not pass on an SFS, which has no entries "." and "..".
Fails_on(vol) == IF vol = "sfs" THEN {"remove_dot", "remove_dotdot", "rename_dot",
                                      "rename_dotdot", "link_dir", "getdirentry_buf"}
                 ELSE {}

\* A test that may have abandoned a child has run.
Abandons == faultin \cap {"waitpid", "2", "3", "4", "*"} # {}

\* Every call with a bad argument gives an error that the test accepts, on
\* either kind of volume and after any other tests, also when one of those
\* ran out of memory: report_checkN prints FAILURE only where a call of this
\* test found no memory, and in the six tests that fail on an SFS (Fails_on).
TestsPass ==
  \A v \in said : v[2] \in {"FAILURE", "ABORTED"} => item \in faultin \/ v[1] \in Fails_on(kern.vol)

\* A test closes what it opened, waits for its children and removes what it
\* made: what it leaves is a test file where remove does not work or where
\* the test (getdirentry) does not remove it.  A test that ran out of memory
\* leaves no descriptor open either, and no process or semaphore unless it
\* is the one that abandons its child.
NothingLeft ==
  Idle =>
    /\ DOMAIN kern.fds[main] = 0..2
    /\ ~Abandons =>
         DOMAIN kern.procs = {main} /\ "sem:badcall" \notin DOMAIN kern.names
    /\ item \notin faultin =>
         DOMAIN kern.names \subseteq
           before \cup (IF kern.vol = "emu" \/ item \in {"getdirentry", "4", "*"} THEN {TESTFILE} ELSE {})

\* In a test that has not ended some process can go on, whatever the order
\* in which the processes of the tests of waitpid run: children that wait for
\* each other or for their parent get an error.  (An earlier test that has
\* abandoned its child may have left it to take the semaphore of this one.)
NotStuck ==
  ~Idle /\ main \in DOMAIN procs /\ ~Abandons =>
    \E p \in DOMAIN procs : procs[p].prog # <<>> /\ syscall(kern, p, CallOf(p)) # {}
=============================================================================
