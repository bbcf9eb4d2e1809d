------------------------------ MODULE SyscallTable ------------------------------
(* The system calls of the guest as the library answers them: the table from   *)
(* number to function, the functions that are stubs, and one record for every  *)
(* function that forwards its call to the monitor's handler.  A record says    *)
(*   check   what happens when the monitor gives no handler: "ENOSYS", "exit"  *)
(*           (the process ends) or "none" (the null pointer is called);        *)
(*   args    how each parameter is passed on, see Translated below;            *)
(*   ret     how the handler's result becomes the guest's, see Result.         *)
EXTENDS Integers, Sequences

---------------------------------------------------------------------------
(* syscall-stubs.cc: UNIMPLEMENTED_SYSCALL ends the process of the monitor.    *)

stubs_process ==
    {"poll", "sigreturn", "pread64", "pwrite64", "select", "sched_yield", "msync", "mincore",
     "madvise", "shmget", "shmat", "shmctl", "dup2", "pause", "getitimer", "alarm", "setitimer",
     "clone", "fork", "vfork", "execve", "exit", "wait4", "kill", "semget", "semop", "semctl",
     "shmdt", "msgget", "msgsnd", "msgrcv", "msgctl", "flock", "fsync", "fdatasync", "rename"}

stubs_identity ==
    {"rmdir", "creat", "link", "symlink", "chmod", "fchmod", "chown", "fchown", "lchown",
     "umask", "sysinfo", "ptrace", "syslog", "setuid", "setgid", "setpgid", "getppid",
     "getpgrp", "setsid", "setreuid", "setregid", "getgroups", "setgroups", "setresuid",
     "getresuid", "setresgid", "getresgid", "getpgid", "setfsuid", "setfsgid", "getsid",
     "capget"}

stubs_schedule ==
    {"capset", "rt_sigpending", "rt_sigtimedwait", "rt_sigqueueinfo", "rt_sigsuspend",
     "sigaltstack", "utime", "mknod", "uselib", "personality", "ustat", "sysfs", "getpriority",
     "setpriority", "sched_setparam", "sched_getparam", "sched_setscheduler",
     "sched_getscheduler", "sched_get_priority_max", "sched_get_priority_min",
     "sched_rr_get_interval", "mlock", "munlock", "mlockall", "munlockall", "vhangup",
     "modify_ldt", "pivot_root", "sysctl", "prctl"}

stubs_system ==
    {"adjtimex", "chroot", "sync", "acct", "settimeofday", "mount", "umount2", "swapon",
     "swapoff", "reboot", "sethostname", "setdomainname", "iopl", "ioperm", "create_module",
     "init_module", "delete_module", "get_kernel_syms", "query_module", "quotactl",
     "nfsservctl", "getpmsg", "putpmsg", "afs_syscall", "tuxcall", "security", "readahead"}

stubs_attributes ==
    {"setxattr", "lsetxattr", "fsetxattr", "getxattr", "lgetxattr", "fgetxattr", "listxattr",
     "llistxattr", "flistxattr", "removexattr", "lremovexattr", "fremovexattr", "tkill",
     "sched_setaffinity", "sched_getaffinity", "set_thread_area", "io_setup", "io_destroy",
     "getevents", "submit", "cancel", "get_thread_area", "lookup_dcookie", "epoll_ctl_old",
     "epoll_wait_old", "remap_file_pages", "getdents64", "restart_syscall", "semtimedop",
     "fadive64", "timer_create", "timer_settime", "timer_gettime", "timer_getoverrun",
     "timer_delete", "clock_settime", "clock_nanosleep"}

stubs_at ==
    {"utimes", "vserver", "mbind", "mpolicy", "get_mempolicy", "mq_open", "mq_unlink",
     "mq_timedsend", "mq_timedreceive", "mq_notify", "getsetattr", "kexec_load", "waitid",
     "add_key", "request_key", "keyctl", "ioprio_set", "ioprio_get", "inotify_init",
     "inotify_add_watch", "inotify_rm_watch", "migrate_pages", "mkdirat", "mknodat", "fchownat",
     "futimesat", "newfstatat", "unlinkat", "renameat", "linkat", "symlinkat", "readlinkat",
     "fchmodat", "faccessat", "pselect6", "ppoll", "unshare", "get_robust_list"}

stubs_socket ==
    {"sendfile", "connect", "sendto", "recvfrom", "sendmsg", "recvmsg", "shutdown",
     "getpeername", "socketpair", "getsockopt"}

Stubs == stubs_process \cup stubs_identity \cup stubs_schedule \cup stubs_system
           \cup stubs_attributes \cup stubs_at \cup stubs_socket

---------------------------------------------------------------------------
(* The table, in the order of the numbers of asm/unistd_64.h, which the        *)
(* initialisers follow without a gap from 0 (read) to 274 (get_robust_list).   *)

table_low ==
    <<"read", "write", "open", "close", "stat", "fstat", "lstat", "poll", "lseek", "mmap",
      "mprotect", "munmap", "brk", "sigaction", "sigprocmask", "sigreturn", "ioctl", "pread64",
      "pwrite64", "readv", "writev", "access", "pipe", "select", "sched_yield", "mremap",
      "msync", "mincore", "madvise", "shmget", "shmat", "shmctl", "dup", "dup2", "pause",
      "nanosleep", "getitimer", "alarm", "setitimer", "getpid", "sendfile", "socket", "connect",
      "accept", "sendto", "recvfrom", "sendmsg", "recvmsg", "shutdown", "bind", "listen",
      "getsockname", "getpeername", "socketpair", "setsockopt", "getsockopt", "clone", "fork",
      "vfork", "execve", "exit", "wait4", "kill", "uname", "semget", "semop", "semctl", "shmdt",
      "msgget", "msgsnd", "msgrcv", "msgctl", "fcntl", "flock", "fsync", "fdatasync",
      "truncate", "ftruncate", "getdents", "getcwd", "chdir", "fchdir", "rename", "mkdir",
      "rmdir", "creat", "link", "unlink", "symlink", "readlink", "chmod", "fchmod", "chown",
      "fchown", "lchown", "umask", "gettimeofday", "getrlimit", "getrusage", "sysinfo", "times",
      "ptrace", "getuid", "syslog", "getgid", "setuid", "setgid", "geteuid", "getegid",
      "setpgid", "getppid", "getpgrp", "setsid", "setreuid", "setregid", "getgroups",
      "setgroups", "setresuid", "getresuid", "setresgid", "getresgid", "getpgid", "setfsuid",
      "setfsgid", "getsid", "capget", "capset", "rt_sigpending", "rt_sigtimedwait",
      "rt_sigqueueinfo", "rt_sigsuspend", "sigaltstack", "utime", "mknod", "uselib",
      "personality", "ustat", "statfs", "fstatfs", "sysfs", "getpriority", "setpriority",
      "sched_setparam", "sched_getparam">>

table_high ==
    <<"sched_setscheduler", "sched_getscheduler", "sched_get_priority_max",
      "sched_get_priority_min", "sched_rr_get_interval", "mlock", "munlock", "mlockall",
      "munlockall", "vhangup", "modify_ldt", "pivot_root", "sysctl", "prctl", "arch_prctl",
      "adjtimex", "setrlimit", "chroot", "sync", "acct", "settimeofday", "mount", "umount2",
      "swapon", "swapoff", "reboot", "sethostname", "setdomainname", "iopl", "ioperm",
      "create_module", "init_module", "delete_module", "get_kernel_syms", "query_module",
      "quotactl", "nfsservctl", "getpmsg", "putpmsg", "afs_syscall", "tuxcall", "security",
      "gettid", "readahead", "setxattr", "lsetxattr", "fsetxattr", "getxattr", "lgetxattr",
      "fgetxattr", "listxattr", "llistxattr", "flistxattr", "removexattr", "lremovexattr",
      "fremovexattr", "tkill", "time", "futex", "sched_setaffinity", "sched_getaffinity",
      "set_thread_area", "io_setup", "io_destroy", "getevents", "submit", "cancel",
      "get_thread_area", "lookup_dcookie", "epoll_create", "epoll_ctl_old", "epoll_wait_old",
      "remap_file_pages", "getdents64", "set_tid_address", "restart_syscall", "semtimedop",
      "fadive64", "timer_create", "timer_settime", "timer_gettime", "timer_getoverrun",
      "timer_delete", "clock_settime", "clock_gettime", "clock_getres", "clock_nanosleep",
      "exit_group", "epoll_wait", "epoll_ctl", "tgkill", "utimes", "vserver", "mbind",
      "mpolicy", "get_mempolicy", "mq_open", "mq_unlink", "mq_timedsend", "mq_timedreceive",
      "mq_notify", "getsetattr", "kexec_load", "waitid", "add_key", "request_key", "keyctl",
      "ioprio_set", "ioprio_get", "inotify_init", "inotify_add_watch", "inotify_rm_watch",
      "migrate_pages", "openat", "mkdirat", "mknodat", "fchownat", "futimesat", "newfstatat",
      "unlinkat", "renameat", "linkat", "symlinkat", "readlinkat", "fchmodat", "faccessat",
      "pselect6", "ppoll", "unshare", "set_robust_list", "get_robust_list">>

NUM_SYSCALLS == 313

\* The entry of a number: the name of a function, or "NULL" where the array has
\* no initialiser.
elkvm_syscalls == [n \in 0 .. NUM_SYSCALLS - 1 |->
    IF n < Len(table_low) THEN table_low[n + 1]
    ELSE IF n < Len(table_low) + Len(table_high) THEN table_high[n + 1 - Len(table_low)]
    ELSE "NULL"]

---------------------------------------------------------------------------
(* The functions that forward.  Parameters:                                    *)
(*   "int"      passed on as it is                                             *)
(*   "opt"      a null pointer stays null, another one is translated           *)
(*   "raw"      translated, null or not                                        *)
(*   "assert"   the guest's pointer must not be null                           *)
(*   "host"     the translated pointer must not be null                        *)
(*   "both"     neither may be null                                            *)
(*   "efault"   not null, and -EFAULT when it cannot be translated             *)
(*   "zero"     an assertion that the value is 0                               *)
(*   "cmd"      translated or passed on, as another parameter decides          *)

Forward(check, args, ret) == [check |-> check, args |-> args, ret |-> ret]

elkvm_do_open            == Forward("ENOSYS", <<"assert", "int", "int">>, "raw")
elkvm_do_openat_Bug      == Forward("ENOSYS", <<"int", "opt", "int">>, "nonzero")
elkvm_do_openat          == Forward("ENOSYS", <<"int", "opt", "int">>, "negative")
elkvm_do_close           == Forward("ENOSYS", <<"int">>, "raw")
elkvm_do_stat            == Forward("ENOSYS", <<"assert", "assert">>, "raw")
elkvm_do_fstat           == Forward("ENOSYS", <<"int", "assert">>, "raw")
elkvm_do_lstat           == Forward("ENOSYS", <<"assert", "assert">>, "raw")
elkvm_do_lseek           == Forward("ENOSYS", <<"int", "int", "int">>, "raw")
elkvm_do_sigprocmask     == Forward("ENOSYS", <<"int", "opt", "opt">>, "raw")
elkvm_do_ioctl           == Forward("ENOSYS", <<"int", "int", "raw">>, "negative")
elkvm_do_access          == Forward("ENOSYS", <<"efault", "int">>, "nonzero")
elkvm_do_pipe            == Forward("ENOSYS", <<"host">>, "nonzero")
elkvm_do_dup             == Forward("ENOSYS", <<"int">>, "always")
elkvm_do_nanosleep       == Forward("ENOSYS", <<"opt", "opt">>, "raw")
elkvm_do_getpid          == Forward("ENOSYS", <<>>, "raw")
elkvm_do_uname           == Forward("ENOSYS", <<"both">>, "raw")
elkvm_do_fcntl           == Forward("ENOSYS", <<"int", "int", "cmd">>, "raw")
elkvm_do_truncate        == Forward("ENOSYS", <<"raw", "int">>, "raw")
elkvm_do_ftruncate       == Forward("ENOSYS", <<"int", "int">>, "raw")
elkvm_do_getdents        == Forward("ENOSYS", <<"int", "opt", "int">>, "negative")
elkvm_do_getcwd          == Forward("ENOSYS", <<"raw", "int">>, "pointer")
elkvm_do_chdir           == Forward("none", <<"opt">>, "raw")
elkvm_do_fchdir          == Forward("none", <<"int">>, "raw")
elkvm_do_mkdir           == Forward("ENOSYS", <<"assert", "int">>, "raw")
elkvm_do_unlink          == Forward("ENOSYS", <<"assert">>, "raw")
elkvm_do_readlink        == Forward("ENOSYS", <<"raw", "raw", "int">>, "raw")
elkvm_do_gettimeofday    == Forward("exit", <<"opt", "opt">>, "raw")
elkvm_do_getrusage       == Forward("ENOSYS", <<"zero", "assert">>, "raw")
elkvm_do_times           == Forward("ENOSYS", <<"both">>, "negative")
elkvm_do_getuid          == Forward("ENOSYS", <<>>, "raw")
elkvm_do_getgid          == Forward("ENOSYS", <<>>, "raw")
elkvm_do_geteuid         == Forward("ENOSYS", <<>>, "raw")
elkvm_do_getegid         == Forward("ENOSYS", <<>>, "raw")
elkvm_do_gettid          == Forward("ENOSYS", <<>>, "raw")
elkvm_do_time            == Forward("ENOSYS", <<"opt">>, "raw")
elkvm_do_futex           == Forward("ENOSYS", <<"opt", "int", "int", "opt", "opt", "int">>, "nonzero")
elkvm_do_epoll_create    == Forward("none", <<"int">>, "raw")
elkvm_do_epoll_wait      == Forward("none", <<"int", "opt", "int", "int">>, "raw")
elkvm_do_epoll_ctl       == Forward("none", <<"int", "int", "int", "opt">>, "raw")
elkvm_do_socket          == Forward("none", <<"int", "int", "int">>, "raw")
elkvm_do_accept          == Forward("none", <<"int", "opt", "opt">>, "raw")
elkvm_do_bind            == Forward("none", <<"int", "opt", "int">>, "raw")
elkvm_do_listen          == Forward("none", <<"int", "int">>, "raw")
elkvm_do_getsockname     == Forward("none", <<"int", "opt", "opt">>, "raw")
elkvm_do_setsockopt      == Forward("none", <<"int", "int", "int", "opt", "int">>, "raw")
elkvm_do_statfs          == Forward("ENOSYS", <<"opt", "opt">>, "nonzero")
elkvm_do_fstatfs         == Forward("ENOSYS", <<"int", "opt">>, "raw")
elkvm_do_set_robust_list == Forward("ENOSYS", <<"assert", "int">>, "raw")
elkvm_do_set_tid_address == Forward("ENOSYS", <<"both">>, "raw")
elkvm_do_clock_gettime   == Forward("ENOSYS", <<"int", "both">>, "raw")
elkvm_do_clock_getres    == Forward("ENOSYS", <<"int", "both">>, "raw")
elkvm_do_tgkill          == Forward("ENOSYS", <<"int", "int", "int">>, "raw")

Forwarding ==
    [open |-> elkvm_do_open, openat |-> elkvm_do_openat, close |-> elkvm_do_close,
     stat |-> elkvm_do_stat, fstat |-> elkvm_do_fstat, lstat |-> elkvm_do_lstat,
     lseek |-> elkvm_do_lseek, sigprocmask |-> elkvm_do_sigprocmask, ioctl |-> elkvm_do_ioctl,
     access |-> elkvm_do_access, pipe |-> elkvm_do_pipe, dup |-> elkvm_do_dup,
     nanosleep |-> elkvm_do_nanosleep, getpid |-> elkvm_do_getpid, uname |-> elkvm_do_uname,
     fcntl |-> elkvm_do_fcntl, truncate |-> elkvm_do_truncate, ftruncate |-> elkvm_do_ftruncate,
     getdents |-> elkvm_do_getdents, getcwd |-> elkvm_do_getcwd, chdir |-> elkvm_do_chdir,
     fchdir |-> elkvm_do_fchdir, mkdir |-> elkvm_do_mkdir, unlink |-> elkvm_do_unlink,
     readlink |-> elkvm_do_readlink, gettimeofday |-> elkvm_do_gettimeofday,
     getrusage |-> elkvm_do_getrusage, times |-> elkvm_do_times, getuid |-> elkvm_do_getuid,
     getgid |-> elkvm_do_getgid, geteuid |-> elkvm_do_geteuid, getegid |-> elkvm_do_getegid,
     gettid |-> elkvm_do_gettid, time |-> elkvm_do_time, futex |-> elkvm_do_futex,
     epoll_create |-> elkvm_do_epoll_create, epoll_wait |-> elkvm_do_epoll_wait,
     epoll_ctl |-> elkvm_do_epoll_ctl, socket |-> elkvm_do_socket, accept |-> elkvm_do_accept,
     bind |-> elkvm_do_bind, listen |-> elkvm_do_listen, getsockname |-> elkvm_do_getsockname,
     setsockopt |-> elkvm_do_setsockopt, statfs |-> elkvm_do_statfs,
     fstatfs |-> elkvm_do_fstatfs, set_robust_list |-> elkvm_do_set_robust_list,
     set_tid_address |-> elkvm_do_set_tid_address, clock_gettime |-> elkvm_do_clock_gettime,
     clock_getres |-> elkvm_do_clock_getres, tgkill |-> elkvm_do_tgkill]

---------------------------------------------------------------------------
(* syscall_default.cc: every default handler is one call of the host's libc.   *)
(* What it may answer, external: "zero" 0 or -1 with errno, "count" a number   *)
(* or -1 with errno, "id" a number, "one" always 1, "pointer" the buffer or    *)
(* null with errno, "noreturn" nothing.                                        *)

pass_file ==
    [read |-> "count", write |-> "count", open |-> "count", close |-> "zero", stat |-> "zero",
     fstat |-> "zero", lstat |-> "zero", lseek |-> "count", sigaction |-> "one",
     sigprocmask |-> "zero", ioctl |-> "count", munmap |-> "zero", readv |-> "count",
     writev |-> "count", access |-> "zero", pipe |-> "zero", dup |-> "count"]

pass_process ==
    [nanosleep |-> "zero", getpid |-> "id", getuid |-> "id", getgid |-> "id", geteuid |-> "id",
     getegid |-> "id", uname |-> "zero", fcntl |-> "count", truncate |-> "zero",
     ftruncate |-> "zero", getdents |-> "count", getcwd |-> "pointer", chdir |-> "zero",
     fchdir |-> "zero", mkdir |-> "zero", unlink |-> "zero", readlink |-> "count"]

pass_system ==
    [gettimeofday |-> "zero", getrusage |-> "zero", statfs |-> "zero", fstatfs |-> "zero",
     setrlimit |-> "zero", gettid |-> "id", time |-> "id", futex |-> "count",
     clock_gettime |-> "zero", clock_getres |-> "zero", exit_group |-> "noreturn",
     tgkill |-> "zero", openat |-> "count"]

pass_socket ==
    [socket |-> "count", bind |-> "zero", accept |-> "count", listen |-> "zero",
     getsockname |-> "zero", setsockopt |-> "zero", epoll_create |-> "count",
     set_tid_address |-> "id", epoll_ctl |-> "zero", epoll_wait |-> "count",
     set_robust_list |-> "zero"]

default_handlers_Bug == DOMAIN pass_file \cup DOMAIN pass_process \cup DOMAIN pass_system

\* The members of default_handlers that are not NULL (times, poll, mprotect and
\* the two of mmap are).
default_handlers == DOMAIN pass_file \cup DOMAIN pass_process
                      \cup DOMAIN pass_system \cup DOMAIN pass_socket

HostKind(c) ==
    CASE c \in DOMAIN pass_file    -> pass_file[c]
      [] c \in DOMAIN pass_process -> pass_process[c]
      [] c \in DOMAIN pass_system  -> pass_system[c]
      [] c \in DOMAIN pass_socket  -> pass_socket[c]
      [] OTHER                     -> "count"
================================================================================
