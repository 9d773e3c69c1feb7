SPECIFICATION Spec
CONSTANTS
  free = free
  router = router
  custom = custom
  openai = openai
  local = local
  Provider = {free, router, custom, openai, local}
  Free = free
  Router = router
  Custom = custom
  OpenAI = openai
  Local = local
  None = None
  Absent = Absent
  Empty = Empty
  Torn = Torn
  EnvKeys = {openai}
  Patcher = {t1, t2}
  Patches <- SomePatches
SYMMETRY PatcherSymmetry
INVARIANTS TypeOK KeysKeepTheirProvider SavedKeysStay
