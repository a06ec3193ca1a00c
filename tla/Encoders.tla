------------------------------ MODULE Encoders ------------------------------
(***************************************************************************)
(* The messages of x/tokenfactory, x/tariff and x/globalfee as their       *)
(* encoders know them: for each type, under which condition and behind     *)
(* which tag its MarshalToSizedBuffer writes a field, and under which      *)
(* condition and with how many bytes of tag its Size counts the field.     *)
(* Nothing but these properties ties the two, and the tables of Schemas    *)
(* that the decoders use, to one another.                                  *)
(***************************************************************************)
IfSet(n) == [when |-> "set", tag |-> n]      \* the field is not zero
Always(n) == [when |-> "always", tag |-> n]
Each(n) == [when |-> "each", tag |-> n]      \* the elements of a list

-----------------------------------------------------------------------------
(* MarshalToSizedBuffer: the byte of the tag.  First, types of the SDK.    *)
CoinWrites == <<IfSet(10), Always(18)>>
DecCoinWrites == <<IfSet(10), Always(18)>>
PageRequestWrites ==
  <<IfSet(10), IfSet(16), IfSet(24), IfSet(32), IfSet(40)>>
PageResponseWrites == <<IfSet(10), IfSet(16)>>

GlobalFeeGenesisStateWrites == <<Always(10)>>
GlobalFeeParamsWrites == <<Each(10), Each(18)>>
GlobalFeeQueryParamsRequestWrites == <<>>
GlobalFeeQueryParamsResponseWrites == <<Always(10)>>
TariffGenesisStateWrites == <<Always(10)>>
TariffParamsWrites ==
  <<Always(10), Each(18), Always(26), Always(34), IfSet(42)>>
TariffDistributionEntityWrites == <<IfSet(10), Always(18)>>
TariffQueryParamsRequestWrites == <<>>
TariffQueryParamsResponseWrites == <<Always(10)>>
BlacklistedWrites == <<IfSet(10)>>
BlacklisterWrites == <<IfSet(10)>>
GenesisStateWrites ==
  <<Always(10), Each(18), IfSet(26), IfSet(34), Each(42), IfSet(50),
    IfSet(58), IfSet(66), Each(74), IfSet(82)>>
MasterMinterWrites == <<IfSet(10)>>
MinterControllerWrites == <<IfSet(10), IfSet(18)>>
MintersWrites == <<IfSet(10), Always(18)>>
MintingDenomWrites == <<IfSet(10)>>
OwnerWrites == <<IfSet(10)>>
ParamsWrites == <<>>
PausedWrites == <<IfSet(8)>>
PauserWrites == <<IfSet(10)>>
QueryParamsRequestWrites == <<>>
QueryParamsResponseWrites == <<Always(10)>>
QueryGetBlacklistedRequestWrites == <<IfSet(10)>>
QueryGetBlacklistedResponseWrites == <<Always(10)>>
QueryAllBlacklistedRequestWrites == <<IfSet(10)>>
QueryAllBlacklistedResponseWrites == <<Each(10), IfSet(18)>>
QueryGetPausedRequestWrites == <<>>
QueryGetPausedResponseWrites == <<Always(10)>>
QueryGetMasterMinterRequestWrites == <<>>
QueryGetMasterMinterResponseWrites == <<Always(10)>>
QueryGetMintersRequestWrites == <<IfSet(10)>>
QueryGetMintersResponseWrites == <<Always(10)>>
QueryAllMintersRequestWrites == <<IfSet(10)>>
QueryAllMintersResponseWrites == <<Each(10), IfSet(18)>>
QueryGetPauserRequestWrites == <<>>
QueryGetPauserResponseWrites == <<Always(10)>>
QueryGetBlacklisterRequestWrites == <<>>
QueryGetBlacklisterResponseWrites == <<Always(10)>>
QueryGetOwnerRequestWrites == <<>>
QueryGetOwnerResponseWrites == <<Always(10)>>
QueryGetMinterControllerRequestWrites == <<IfSet(10)>>
QueryGetMinterControllerResponseWrites == <<Always(10)>>
QueryAllMinterControllerRequestWrites == <<IfSet(10)>>
QueryAllMinterControllerResponseWrites == <<Each(10), IfSet(18)>>
QueryGetMintingDenomRequestWrites == <<>>
QueryGetMintingDenomResponseWrites == <<Always(10)>>
MsgUpdateMasterMinterWrites == <<IfSet(10), IfSet(18)>>
MsgUpdateMasterMinterResponseWrites == <<>>
MsgUpdatePauserWrites == <<IfSet(10), IfSet(18)>>
MsgUpdatePauserResponseWrites == <<>>
MsgUpdateBlacklisterWrites == <<IfSet(10), IfSet(18)>>
MsgUpdateBlacklisterResponseWrites == <<>>
MsgUpdateOwnerWrites == <<IfSet(10), IfSet(18)>>
MsgUpdateOwnerResponseWrites == <<>>
MsgAcceptOwnerWrites == <<IfSet(10)>>
MsgAcceptOwnerResponseWrites == <<>>
MsgConfigureMinterWrites == <<IfSet(10), IfSet(18), Always(26)>>
MsgConfigureMinterResponseWrites == <<>>
MsgRemoveMinterWrites == <<IfSet(10), IfSet(18)>>
MsgRemoveMinterResponseWrites == <<>>
MsgMintWrites == <<IfSet(10), IfSet(18), Always(26)>>
MsgMintResponseWrites == <<>>
MsgBurnWrites == <<IfSet(10), Always(18)>>
MsgBurnResponseWrites == <<>>
MsgBlacklistWrites == <<IfSet(10), IfSet(18)>>
MsgBlacklistResponseWrites == <<>>
MsgUnblacklistWrites == <<IfSet(10), IfSet(18)>>
MsgUnblacklistResponseWrites == <<>>
MsgPauseWrites == <<IfSet(10)>>
MsgPauseResponseWrites == <<>>
MsgUnpauseWrites == <<IfSet(10)>>
MsgUnpauseResponseWrites == <<>>
MsgConfigureMinterControllerWrites == <<IfSet(10), IfSet(18), IfSet(26)>>
MsgConfigureMinterControllerResponseWrites == <<>>
MsgRemoveMinterControllerWrites == <<IfSet(10), IfSet(18)>>
MsgRemoveMinterControllerResponseWrites == <<>>

MessageWrites ==
  [Coin |-> CoinWrites, DecCoin |-> DecCoinWrites,
    PageRequest |-> PageRequestWrites, PageResponse |-> PageResponseWrites,
    GlobalFeeGenesisState |-> GlobalFeeGenesisStateWrites,
    GlobalFeeParams |-> GlobalFeeParamsWrites,
    GlobalFeeQueryParamsRequest |-> GlobalFeeQueryParamsRequestWrites,
    GlobalFeeQueryParamsResponse |-> GlobalFeeQueryParamsResponseWrites,
    TariffGenesisState |-> TariffGenesisStateWrites,
    TariffParams |-> TariffParamsWrites,
    TariffDistributionEntity |-> TariffDistributionEntityWrites,
    TariffQueryParamsRequest |-> TariffQueryParamsRequestWrites,
    TariffQueryParamsResponse |-> TariffQueryParamsResponseWrites,
    Blacklisted |-> BlacklistedWrites, Blacklister |-> BlacklisterWrites,
    GenesisState |-> GenesisStateWrites, MasterMinter |-> MasterMinterWrites,
    MinterController |-> MinterControllerWrites, Minters |-> MintersWrites,
    MintingDenom |-> MintingDenomWrites, Owner |-> OwnerWrites,
    Params |-> ParamsWrites, Paused |-> PausedWrites, Pauser |-> PauserWrites,
    QueryParamsRequest |-> QueryParamsRequestWrites,
    QueryParamsResponse |-> QueryParamsResponseWrites,
    QueryGetBlacklistedRequest |-> QueryGetBlacklistedRequestWrites,
    QueryGetBlacklistedResponse |-> QueryGetBlacklistedResponseWrites,
    QueryAllBlacklistedRequest |-> QueryAllBlacklistedRequestWrites,
    QueryAllBlacklistedResponse |-> QueryAllBlacklistedResponseWrites,
    QueryGetPausedRequest |-> QueryGetPausedRequestWrites,
    QueryGetPausedResponse |-> QueryGetPausedResponseWrites,
    QueryGetMasterMinterRequest |-> QueryGetMasterMinterRequestWrites,
    QueryGetMasterMinterResponse |-> QueryGetMasterMinterResponseWrites,
    QueryGetMintersRequest |-> QueryGetMintersRequestWrites,
    QueryGetMintersResponse |-> QueryGetMintersResponseWrites,
    QueryAllMintersRequest |-> QueryAllMintersRequestWrites,
    QueryAllMintersResponse |-> QueryAllMintersResponseWrites,
    QueryGetPauserRequest |-> QueryGetPauserRequestWrites,
    QueryGetPauserResponse |-> QueryGetPauserResponseWrites,
    QueryGetBlacklisterRequest |-> QueryGetBlacklisterRequestWrites,
    QueryGetBlacklisterResponse |-> QueryGetBlacklisterResponseWrites,
    QueryGetOwnerRequest |-> QueryGetOwnerRequestWrites,
    QueryGetOwnerResponse |-> QueryGetOwnerResponseWrites,
    QueryGetMinterControllerRequest |-> QueryGetMinterControllerRequestWrites,
    QueryGetMinterControllerResponse |-> QueryGetMinterControllerResponseWrites,
    QueryAllMinterControllerRequest |-> QueryAllMinterControllerRequestWrites,
    QueryAllMinterControllerResponse |-> QueryAllMinterControllerResponseWrites,
    QueryGetMintingDenomRequest |-> QueryGetMintingDenomRequestWrites,
    QueryGetMintingDenomResponse |-> QueryGetMintingDenomResponseWrites,
    MsgUpdateMasterMinter |-> MsgUpdateMasterMinterWrites,
    MsgUpdateMasterMinterResponse |-> MsgUpdateMasterMinterResponseWrites,
    MsgUpdatePauser |-> MsgUpdatePauserWrites,
    MsgUpdatePauserResponse |-> MsgUpdatePauserResponseWrites,
    MsgUpdateBlacklister |-> MsgUpdateBlacklisterWrites,
    MsgUpdateBlacklisterResponse |-> MsgUpdateBlacklisterResponseWrites,
    MsgUpdateOwner |-> MsgUpdateOwnerWrites,
    MsgUpdateOwnerResponse |-> MsgUpdateOwnerResponseWrites,
    MsgAcceptOwner |-> MsgAcceptOwnerWrites,
    MsgAcceptOwnerResponse |-> MsgAcceptOwnerResponseWrites,
    MsgConfigureMinter |-> MsgConfigureMinterWrites,
    MsgConfigureMinterResponse |-> MsgConfigureMinterResponseWrites,
    MsgRemoveMinter |-> MsgRemoveMinterWrites,
    MsgRemoveMinterResponse |-> MsgRemoveMinterResponseWrites,
    MsgMint |-> MsgMintWrites, MsgMintResponse |-> MsgMintResponseWrites,
    MsgBurn |-> MsgBurnWrites, MsgBurnResponse |-> MsgBurnResponseWrites,
    MsgBlacklist |-> MsgBlacklistWrites,
    MsgBlacklistResponse |-> MsgBlacklistResponseWrites,
    MsgUnblacklist |-> MsgUnblacklistWrites,
    MsgUnblacklistResponse |-> MsgUnblacklistResponseWrites,
    MsgPause |-> MsgPauseWrites, MsgPauseResponse |-> MsgPauseResponseWrites,
    MsgUnpause |-> MsgUnpauseWrites,
    MsgUnpauseResponse |-> MsgUnpauseResponseWrites,
    MsgConfigureMinterController |-> MsgConfigureMinterControllerWrites,
    MsgConfigureMinterControllerResponse |-> MsgConfigureMinterControllerResponseWrites,
    MsgRemoveMinterController |-> MsgRemoveMinterControllerWrites,
    MsgRemoveMinterControllerResponse |-> MsgRemoveMinterControllerResponseWrites]

-----------------------------------------------------------------------------
(* Size: the number of bytes of the tag.  First, types of the SDK.         *)
CoinCounts == <<IfSet(1), Always(1)>>
DecCoinCounts == <<IfSet(1), Always(1)>>
PageRequestCounts == <<IfSet(1), IfSet(1), IfSet(1), IfSet(1), IfSet(1)>>
PageResponseCounts == <<IfSet(1), IfSet(1)>>

GlobalFeeGenesisStateCounts == <<Always(1)>>
GlobalFeeParamsCounts == <<Each(1), Each(1)>>
GlobalFeeQueryParamsRequestCounts == <<>>
GlobalFeeQueryParamsResponseCounts == <<Always(1)>>
TariffGenesisStateCounts == <<Always(1)>>
TariffParamsCounts == <<Always(1), Each(1), Always(1), Always(1), IfSet(1)>>
TariffDistributionEntityCounts == <<IfSet(1), Always(1)>>
TariffQueryParamsRequestCounts == <<>>
TariffQueryParamsResponseCounts == <<Always(1)>>
BlacklistedCounts == <<IfSet(1)>>
BlacklisterCounts == <<IfSet(1)>>
GenesisStateCounts ==
  <<Always(1), Each(1), IfSet(1), IfSet(1), Each(1), IfSet(1), IfSet(1),
    IfSet(1), Each(1), IfSet(1)>>
MasterMinterCounts == <<IfSet(1)>>
MinterControllerCounts == <<IfSet(1), IfSet(1)>>
MintersCounts == <<IfSet(1), Always(1)>>
MintingDenomCounts == <<IfSet(1)>>
OwnerCounts == <<IfSet(1)>>
ParamsCounts == <<>>
PausedCounts == <<IfSet(1)>>
PauserCounts == <<IfSet(1)>>
QueryParamsRequestCounts == <<>>
QueryParamsResponseCounts == <<Always(1)>>
QueryGetBlacklistedRequestCounts == <<IfSet(1)>>
QueryGetBlacklistedResponseCounts == <<Always(1)>>
QueryAllBlacklistedRequestCounts == <<IfSet(1)>>
QueryAllBlacklistedResponseCounts == <<Each(1), IfSet(1)>>
QueryGetPausedRequestCounts == <<>>
QueryGetPausedResponseCounts == <<Always(1)>>
QueryGetMasterMinterRequestCounts == <<>>
QueryGetMasterMinterResponseCounts == <<Always(1)>>
QueryGetMintersRequestCounts == <<IfSet(1)>>
QueryGetMintersResponseCounts == <<Always(1)>>
QueryAllMintersRequestCounts == <<IfSet(1)>>
QueryAllMintersResponseCounts == <<Each(1), IfSet(1)>>
QueryGetPauserRequestCounts == <<>>
QueryGetPauserResponseCounts == <<Always(1)>>
QueryGetBlacklisterRequestCounts == <<>>
QueryGetBlacklisterResponseCounts == <<Always(1)>>
QueryGetOwnerRequestCounts == <<>>
QueryGetOwnerResponseCounts == <<Always(1)>>
QueryGetMinterControllerRequestCounts == <<IfSet(1)>>
QueryGetMinterControllerResponseCounts == <<Always(1)>>
QueryAllMinterControllerRequestCounts == <<IfSet(1)>>
QueryAllMinterControllerResponseCounts == <<Each(1), IfSet(1)>>
QueryGetMintingDenomRequestCounts == <<>>
QueryGetMintingDenomResponseCounts == <<Always(1)>>
MsgUpdateMasterMinterCounts == <<IfSet(1), IfSet(1)>>
MsgUpdateMasterMinterResponseCounts == <<>>
MsgUpdatePauserCounts == <<IfSet(1), IfSet(1)>>
MsgUpdatePauserResponseCounts == <<>>
MsgUpdateBlacklisterCounts == <<IfSet(1), IfSet(1)>>
MsgUpdateBlacklisterResponseCounts == <<>>
MsgUpdateOwnerCounts == <<IfSet(1), IfSet(1)>>
MsgUpdateOwnerResponseCounts == <<>>
MsgAcceptOwnerCounts == <<IfSet(1)>>
MsgAcceptOwnerResponseCounts == <<>>
MsgConfigureMinterCounts == <<IfSet(1), IfSet(1), Always(1)>>
MsgConfigureMinterResponseCounts == <<>>
MsgRemoveMinterCounts == <<IfSet(1), IfSet(1)>>
MsgRemoveMinterResponseCounts == <<>>
MsgMintCounts == <<IfSet(1), IfSet(1), Always(1)>>
MsgMintResponseCounts == <<>>
MsgBurnCounts == <<IfSet(1), Always(1)>>
MsgBurnResponseCounts == <<>>
MsgBlacklistCounts == <<IfSet(1), IfSet(1)>>
MsgBlacklistResponseCounts == <<>>
MsgUnblacklistCounts == <<IfSet(1), IfSet(1)>>
MsgUnblacklistResponseCounts == <<>>
MsgPauseCounts == <<IfSet(1)>>
MsgPauseResponseCounts == <<>>
MsgUnpauseCounts == <<IfSet(1)>>
MsgUnpauseResponseCounts == <<>>
MsgConfigureMinterControllerCounts == <<IfSet(1), IfSet(1), IfSet(1)>>
MsgConfigureMinterControllerResponseCounts == <<>>
MsgRemoveMinterControllerCounts == <<IfSet(1), IfSet(1)>>
MsgRemoveMinterControllerResponseCounts == <<>>

MessageCounts ==
  [Coin |-> CoinCounts, DecCoin |-> DecCoinCounts,
    PageRequest |-> PageRequestCounts, PageResponse |-> PageResponseCounts,
    GlobalFeeGenesisState |-> GlobalFeeGenesisStateCounts,
    GlobalFeeParams |-> GlobalFeeParamsCounts,
    GlobalFeeQueryParamsRequest |-> GlobalFeeQueryParamsRequestCounts,
    GlobalFeeQueryParamsResponse |-> GlobalFeeQueryParamsResponseCounts,
    TariffGenesisState |-> TariffGenesisStateCounts,
    TariffParams |-> TariffParamsCounts,
    TariffDistributionEntity |-> TariffDistributionEntityCounts,
    TariffQueryParamsRequest |-> TariffQueryParamsRequestCounts,
    TariffQueryParamsResponse |-> TariffQueryParamsResponseCounts,
    Blacklisted |-> BlacklistedCounts, Blacklister |-> BlacklisterCounts,
    GenesisState |-> GenesisStateCounts, MasterMinter |-> MasterMinterCounts,
    MinterController |-> MinterControllerCounts, Minters |-> MintersCounts,
    MintingDenom |-> MintingDenomCounts, Owner |-> OwnerCounts,
    Params |-> ParamsCounts, Paused |-> PausedCounts, Pauser |-> PauserCounts,
    QueryParamsRequest |-> QueryParamsRequestCounts,
    QueryParamsResponse |-> QueryParamsResponseCounts,
    QueryGetBlacklistedRequest |-> QueryGetBlacklistedRequestCounts,
    QueryGetBlacklistedResponse |-> QueryGetBlacklistedResponseCounts,
    QueryAllBlacklistedRequest |-> QueryAllBlacklistedRequestCounts,
    QueryAllBlacklistedResponse |-> QueryAllBlacklistedResponseCounts,
    QueryGetPausedRequest |-> QueryGetPausedRequestCounts,
    QueryGetPausedResponse |-> QueryGetPausedResponseCounts,
    QueryGetMasterMinterRequest |-> QueryGetMasterMinterRequestCounts,
    QueryGetMasterMinterResponse |-> QueryGetMasterMinterResponseCounts,
    QueryGetMintersRequest |-> QueryGetMintersRequestCounts,
    QueryGetMintersResponse |-> QueryGetMintersResponseCounts,
    QueryAllMintersRequest |-> QueryAllMintersRequestCounts,
    QueryAllMintersResponse |-> QueryAllMintersResponseCounts,
    QueryGetPauserRequest |-> QueryGetPauserRequestCounts,
    QueryGetPauserResponse |-> QueryGetPauserResponseCounts,
    QueryGetBlacklisterRequest |-> QueryGetBlacklisterRequestCounts,
    QueryGetBlacklisterResponse |-> QueryGetBlacklisterResponseCounts,
    QueryGetOwnerRequest |-> QueryGetOwnerRequestCounts,
    QueryGetOwnerResponse |-> QueryGetOwnerResponseCounts,
    QueryGetMinterControllerRequest |-> QueryGetMinterControllerRequestCounts,
    QueryGetMinterControllerResponse |-> QueryGetMinterControllerResponseCounts,
    QueryAllMinterControllerRequest |-> QueryAllMinterControllerRequestCounts,
    QueryAllMinterControllerResponse |-> QueryAllMinterControllerResponseCounts,
    QueryGetMintingDenomRequest |-> QueryGetMintingDenomRequestCounts,
    QueryGetMintingDenomResponse |-> QueryGetMintingDenomResponseCounts,
    MsgUpdateMasterMinter |-> MsgUpdateMasterMinterCounts,
    MsgUpdateMasterMinterResponse |-> MsgUpdateMasterMinterResponseCounts,
    MsgUpdatePauser |-> MsgUpdatePauserCounts,
    MsgUpdatePauserResponse |-> MsgUpdatePauserResponseCounts,
    MsgUpdateBlacklister |-> MsgUpdateBlacklisterCounts,
    MsgUpdateBlacklisterResponse |-> MsgUpdateBlacklisterResponseCounts,
    MsgUpdateOwner |-> MsgUpdateOwnerCounts,
    MsgUpdateOwnerResponse |-> MsgUpdateOwnerResponseCounts,
    MsgAcceptOwner |-> MsgAcceptOwnerCounts,
    MsgAcceptOwnerResponse |-> MsgAcceptOwnerResponseCounts,
    MsgConfigureMinter |-> MsgConfigureMinterCounts,
    MsgConfigureMinterResponse |-> MsgConfigureMinterResponseCounts,
    MsgRemoveMinter |-> MsgRemoveMinterCounts,
    MsgRemoveMinterResponse |-> MsgRemoveMinterResponseCounts,
    MsgMint |-> MsgMintCounts, MsgMintResponse |-> MsgMintResponseCounts,
    MsgBurn |-> MsgBurnCounts, MsgBurnResponse |-> MsgBurnResponseCounts,
    MsgBlacklist |-> MsgBlacklistCounts,
    MsgBlacklistResponse |-> MsgBlacklistResponseCounts,
    MsgUnblacklist |-> MsgUnblacklistCounts,
    MsgUnblacklistResponse |-> MsgUnblacklistResponseCounts,
    MsgPause |-> MsgPauseCounts, MsgPauseResponse |-> MsgPauseResponseCounts,
    MsgUnpause |-> MsgUnpauseCounts,
    MsgUnpauseResponse |-> MsgUnpauseResponseCounts,
    MsgConfigureMinterController |-> MsgConfigureMinterControllerCounts,
    MsgConfigureMinterControllerResponse |-> MsgConfigureMinterControllerResponseCounts,
    MsgRemoveMinterController |-> MsgRemoveMinterControllerCounts,
    MsgRemoveMinterControllerResponse |-> MsgRemoveMinterControllerResponseCounts]
=============================================================================
